---- MODULE Spec2Model ----
(***************************************************************************)
(* A model of windwarden: the Tailwind class sorter (src/src/sorter), the  *)
(* class extractor (src/src/parser) and the rewrite engine                 *)
(* (src/src/processor).                                                    *)
(*                                                                         *)
(* Text is modelled byte for byte: a Rust &str / String is a TLA+ string,  *)
(* read with SubSeq and Len and built with \o.  Offsets are 0-based byte   *)
(* offsets as in the source; Slice(s, a, b) is Rust's s[a..b].             *)
(* The backtick cannot be written inside a TLA+ string, so the model       *)
(* writes the byte 0x60 as "~" (BT); no modelled text uses a real tilde.   *)
(***************************************************************************)
EXTENDS Integers, Sequences, FiniteSets, TLC

(***************************************************************************)
(* Bounds of the model.                                                    *)
(***************************************************************************)
\* Largest number of tokens in a class string handed to the sorter.
MaxTokens == 3

(***************************************************************************)
(* Byte strings.                                                           *)
(***************************************************************************)
BT == "~"

At(s, i) == SubSeq(s, i, i)

Slice(s, a, b) == SubSeq(s, a + 1, b)

SetMin(S) == CHOOSE x \in S : \A y \in S : x <= y

SetMax(S) == CHOOSE x \in S : \A y \in S : x >= y

\* The printable ASCII bytes 0x20 .. 0x7D in byte order (0x60 written BT).
AsciiTable ==
    " !\"#$%&'()*+,-./0123456789:;<=>?@ABCDEFGHIJKLMNOPQRSTUVWXYZ[\\]^_~abcdefghijklmnopqrstuvwxyz{|}"

\* The byte value of a one-byte string.
ByteOf(c) ==
    IF c = "\t" THEN 9
    ELSE IF c = "\n" THEN 10
    ELSE IF c = "\r" THEN 13
    ELSE 31 + (CHOOSE i \in 1..Len(AsciiTable) : At(AsciiTable, i) = c)

CmpInt(a, b) == IF a < b THEN -1 ELSE IF a > b THEN 1 ELSE 0

\* Ord::cmp on str: bytewise lexicographic; -1 Less, 0 Equal, 1 Greater.
StrCmp(a, b) ==
    LET n == IF Len(a) < Len(b) THEN Len(a) ELSE Len(b)
        d == {i \in 1..n : At(a, i) # At(b, i)}
    IN  IF d = {} THEN CmpInt(Len(a), Len(b))
        ELSE LET i == SetMin(d) IN CmpInt(ByteOf(At(a, i)), ByteOf(At(b, i)))

\* char::is_whitespace on the bytes the model uses.
IsWs(c) == c \in {" ", "\t", "\n", "\r"}

\* str::trim
Trim(s) ==
    LET keep == {i \in 1..Len(s) : ~IsWs(At(s, i))}
    IN  IF keep = {} THEN "" ELSE SubSeq(s, SetMin(keep), SetMax(keep))

\* The number of leading whitespace bytes that str::trim removes.
LeadingWs(s) ==
    LET keep == {i \in 1..Len(s) : ~IsWs(At(s, i))}
    IN  IF keep = {} THEN Len(s) ELSE SetMin(keep) - 1

StartsWith(s, p) == Len(p) <= Len(s) /\ Slice(s, 0, Len(p)) = p

EndsWith(s, p) == Len(p) <= Len(s) /\ Slice(s, Len(s) - Len(p), Len(s)) = p

\* str::find: the byte offset of the first occurrence, -1 for None.
Find(s, sub) ==
    LET c == {i \in 0..(Len(s) - Len(sub)) : Slice(s, i, i + Len(sub)) = sub}
    IN  IF c = {} THEN -1 ELSE SetMin(c)

\* str::rfind of one byte.
RFind(s, ch) ==
    LET c == {i \in 0..(Len(s) - 1) : At(s, i + 1) = ch}
    IN  IF c = {} THEN -1 ELSE SetMax(c)

Contains(s, sub) == Find(s, sub) # -1

\* String::replace_range(a..b, with)
ReplaceRange(s, a, b, with) == Slice(s, 0, a) \o with \o Slice(s, b, Len(s))

RECURSIVE SplitWsFrom(_, _, _)
SplitWsFrom(s, i, cur) ==
    IF i > Len(s) THEN (IF cur = "" THEN <<>> ELSE <<cur>>)
    ELSE IF IsWs(At(s, i))
         THEN (IF cur = "" THEN <<>> ELSE <<cur>>) \o SplitWsFrom(s, i + 1, "")
         ELSE SplitWsFrom(s, i + 1, cur \o At(s, i))

\* str::split_whitespace
SplitWhitespace(s) == SplitWsFrom(s, 1, "")

RECURSIVE SplitOnFrom(_, _, _, _)
SplitOnFrom(s, ch, i, cur) ==
    IF i > Len(s) THEN <<cur>>
    ELSE IF At(s, i) = ch THEN <<cur>> \o SplitOnFrom(s, ch, i + 1, "")
         ELSE SplitOnFrom(s, ch, i + 1, cur \o At(s, i))

\* str::split(ch): empty pieces are kept.
SplitOn(s, ch) == SplitOnFrom(s, ch, 1, "")

RECURSIVE Join(_, _)
\* [&str]::join(sep)
Join(words, sep) ==
    IF Len(words) = 0 THEN ""
    ELSE IF Len(words) = 1 THEN words[1]
         ELSE words[1] \o sep \o Join(Tail(words), sep)

RECURSIVE ReplaceAllFrom(_, _, _, _)
ReplaceAllFrom(s, ch, with, i) ==
    IF i > Len(s) THEN ""
    ELSE (IF At(s, i) = ch THEN with ELSE At(s, i)) \o ReplaceAllFrom(s, ch, with, i + 1)

\* str::replace(ch, with) for a one-byte pattern.
ReplaceAll(s, ch, with) == ReplaceAllFrom(s, ch, with, 1)

Range(f) == {f[i] : i \in DOMAIN f}

(***************************************************************************)
(* Category table: src/src/sorter/categories.rs                            *)
(***************************************************************************)
CATEGORY_ORDER ==
    << "layout", "flexbox-grid", "spacing", "sizing", "typography",
       "backgrounds", "borders", "effects", "filters", "tables",
       "transitions", "transforms", "interactivity", "svg", "accessibility",
       "unknown" >>

\* The prefix -> category map, one <<prefix, category>> pair per insert.
CLASS_CATEGORIES ==
    <<
       <<"aspect-", "layout">>, <<"container", "layout">>, <<"columns-", "layout">>,
       <<"break-", "layout">>, <<"box-", "layout">>, <<"block", "layout">>,
       <<"inline", "layout">>, <<"hidden", "layout">>, <<"table", "layout">>,
       <<"float-", "layout">>, <<"clear-", "layout">>, <<"isolate", "layout">>,
       <<"object-", "layout">>, <<"overflow-", "layout">>, <<"overscroll-", "layout">>,
       <<"position", "layout">>, <<"static", "layout">>, <<"fixed", "layout">>,
       <<"absolute", "layout">>, <<"relative", "layout">>, <<"sticky", "layout">>,
       <<"inset-", "layout">>, <<"top-", "layout">>, <<"right-", "layout">>,
       <<"bottom-", "layout">>, <<"left-", "layout">>, <<"z-", "layout">>,
       <<"visible", "layout">>, <<"invisible", "layout">>, <<"flex", "flexbox-grid">>,
       <<"grid", "flexbox-grid">>, <<"order-", "flexbox-grid">>, <<"col-", "flexbox-grid">>,
       <<"row-", "flexbox-grid">>, <<"auto-", "flexbox-grid">>, <<"gap-", "flexbox-grid">>,
       <<"justify-", "flexbox-grid">>, <<"items-", "flexbox-grid">>, <<"content-", "flexbox-grid">>,
       <<"self-", "flexbox-grid">>, <<"place-", "flexbox-grid">>, <<"p-", "spacing">>,
       <<"px-", "spacing">>, <<"py-", "spacing">>, <<"pt-", "spacing">>,
       <<"pr-", "spacing">>, <<"pb-", "spacing">>, <<"pl-", "spacing">>,
       <<"m-", "spacing">>, <<"mx-", "spacing">>, <<"my-", "spacing">>,
       <<"mt-", "spacing">>, <<"mr-", "spacing">>, <<"mb-", "spacing">>,
       <<"ml-", "spacing">>, <<"space-", "spacing">>, <<"w-", "sizing">>,
       <<"min-w-", "sizing">>, <<"max-w-", "sizing">>, <<"h-", "sizing">>,
       <<"min-h-", "sizing">>, <<"max-h-", "sizing">>, <<"size-", "sizing">>,
       <<"font-", "typography">>, <<"text-", "typography">>, <<"antialiased", "typography">>,
       <<"subpixel-antialiased", "typography">>, <<"italic", "typography">>, <<"not-italic", "typography">>,
       <<"tracking-", "typography">>, <<"leading-", "typography">>, <<"list-", "typography">>,
       <<"decoration-", "typography">>, <<"underline", "typography">>, <<"overline", "typography">>,
       <<"line-through", "typography">>, <<"no-underline", "typography">>, <<"uppercase", "typography">>,
       <<"lowercase", "typography">>, <<"capitalize", "typography">>, <<"normal-case", "typography">>,
       <<"truncate", "typography">>, <<"overflow-ellipsis", "typography">>, <<"overflow-clip", "typography">>,
       <<"bg-", "backgrounds">>, <<"from-", "backgrounds">>, <<"via-", "backgrounds">>,
       <<"to-", "backgrounds">>, <<"border", "borders">>, <<"divide-", "borders">>,
       <<"outline-", "borders">>, <<"ring-", "borders">>, <<"rounded", "borders">>,
       <<"shadow", "effects">>, <<"opacity-", "effects">>, <<"mix-blend-", "effects">>,
       <<"blur-", "filters">>, <<"brightness-", "filters">>, <<"contrast-", "filters">>,
       <<"drop-shadow", "filters">>, <<"grayscale", "filters">>, <<"hue-rotate-", "filters">>,
       <<"invert", "filters">>, <<"saturate-", "filters">>, <<"sepia", "filters">>,
       <<"backdrop-", "filters">>, <<"border-collapse", "tables">>, <<"border-separate", "tables">>,
       <<"table-", "tables">>, <<"transition", "transitions">>, <<"duration-", "transitions">>,
       <<"ease-", "transitions">>, <<"delay-", "transitions">>, <<"animate-", "transitions">>,
       <<"transform", "transforms">>, <<"transform-", "transforms">>, <<"translate-", "transforms">>,
       <<"rotate-", "transforms">>, <<"skew-", "transforms">>, <<"scale-", "transforms">>,
       <<"origin-", "transforms">>, <<"accent-", "interactivity">>, <<"appearance-", "interactivity">>,
       <<"cursor-", "interactivity">>, <<"caret-", "interactivity">>, <<"pointer-events-", "interactivity">>,
       <<"resize", "interactivity">>, <<"scroll-", "interactivity">>, <<"select-", "interactivity">>,
       <<"touch-", "interactivity">>, <<"user-select-", "interactivity">>, <<"will-change-", "interactivity">>,
       <<"fill-", "svg">>, <<"stroke-", "svg">>, <<"sr-only", "accessibility">>,
       <<"not-sr-only", "accessibility">>
    >>

(***************************************************************************)
(* Configuration: src/src/config.rs                                        *)
(***************************************************************************)
\* The part of Config the sorter reads.
Config(sort_order, custom_order, function_names) ==
    [sort_order |-> sort_order, custom_order |-> custom_order, function_names |-> function_names]

\* ConfigManager::get_available_categories
get_available_categories == CATEGORY_ORDER

\* ConfigManager::validate_config, the sort_order / custom_order checks:
\* TRUE for Ok, FALSE for a config_error.
validate_config(config) ==
    /\ config.sort_order \in {"official", "custom"}
    /\ config.sort_order = "custom" =>
          /\ config.custom_order # <<>>
          /\ \A i \in 1..Len(config.custom_order) :
                config.custom_order[i] \in Range(get_available_categories)

(***************************************************************************)
(* TailwindSorter: src/src/sorter/mod.rs                                   *)
(***************************************************************************)
\* Option<Vec<String>>
NoOrder == [some |-> FALSE, val |-> <<>>]

SomeOrder(order) == [some |-> TRUE, val |-> order]

\* TailwindSorter::new_with_custom_order.  category_order_map is collected
\* from the enumerated order, so a repeated name keeps its last index.
new_with_custom_order(custom_order) ==
    LET category_order == IF custom_order.some THEN custom_order.val ELSE CATEGORY_ORDER
    IN  [ category_order |-> category_order,
          category_order_map |->
              [c \in Range(category_order) |->
                  SetMax({i \in 1..Len(category_order) : category_order[i] = c}) - 1] ]

\* TailwindSorter::new
new_sorter == new_with_custom_order(NoOrder)

\* FileProcessor::new_with_config, the sorter it builds.
sorter_for_config(config) ==
    IF config.sort_order = "custom" /\ config.custom_order # <<>>
    THEN new_with_custom_order(SomeOrder(config.custom_order))
    ELSE new_sorter

\* TailwindSorter::get_category_order
get_category_order(sorter, category) ==
    IF category \in DOMAIN sorter.category_order_map
    THEN sorter.category_order_map[category]
    ELSE 999

\* TailwindSorter::split_variants: the base after the last ':' and the
\* ':'-separated variant chain before it.
split_variants(class) ==
    LET last_colon == RFind(class, ":")
    IN  IF last_colon # -1
        THEN [ base |-> Slice(class, last_colon + 1, Len(class)),
               variants |-> SplitOn(Slice(class, 0, last_colon), ":") ]
        ELSE [ base |-> class, variants |-> <<>> ]

\* str::strip_prefix(ch).unwrap_or(s)
StripPrefix(s, ch) == IF StartsWith(s, ch) THEN Slice(s, Len(ch), Len(s)) ELSE s

\* The fallback loop of find_category_optimized: the category of the longest
\* prefix in the table that the class starts with, "unknown" when none does.
\* (Two different prefixes of one string differ in length, so the HashMap's
\* iteration order does not matter.)
longest_prefix_category(base_class) ==
    LET hits == {i \in 1..Len(CLASS_CATEGORIES) : StartsWith(base_class, CLASS_CATEGORIES[i][1])}
    IN  IF hits = {} THEN "unknown"
        ELSE CLASS_CATEGORIES[CHOOSE i \in hits : \A j \in hits :
                 Len(CLASS_CATEGORIES[i][1]) >= Len(CLASS_CATEGORIES[j][1])][2]

\* find_category_optimized, were the fast path to look at the first
\* character only.
find_category_optimized_FirstCharOnly(base_class) ==
    LET first_char == IF base_class = "" THEN "" ELSE At(base_class, 1)
    IN  IF first_char \in {"p", "m"} THEN "spacing"
        ELSE IF first_char \in {"w", "h"} THEN "sizing"
        ELSE longest_prefix_category(base_class)

\* TailwindSorter::find_category_optimized
find_category_optimized(base_class) ==
    LET first_char == IF base_class = "" THEN "" ELSE At(base_class, 1)
        any(ps) == \E p \in ps : StartsWith(base_class, p)
    IN  IF first_char = "p" /\ any({"p-", "px-", "py-", "pt-", "pb-", "pl-", "pr-"}) THEN "spacing"
        ELSE IF first_char = "m" /\ any({"m-", "mx-", "my-", "mt-", "mb-", "ml-", "mr-"}) THEN "spacing"
        ELSE IF first_char = "w" /\ any({"w-"}) THEN "sizing"
        ELSE IF first_char = "h" /\ any({"h-"}) THEN "sizing"
        ELSE longest_prefix_category(base_class)

\* The base_class get_class_category gives find_category_optimized: the
\* class after its last ':', without one leading '!' and then one leading '-'.
stripped_base_class(class) ==
    LET colon_pos == RFind(class, ":")
        base0 == IF colon_pos # -1 THEN Slice(class, colon_pos + 1, Len(class)) ELSE class
        base1 == StripPrefix(base0, "!")
    IN  StripPrefix(base1, "-")

\* The category get_class_category computes on a cache miss.
compute_class_category(class) == find_category_optimized(stripped_base_class(class))

\* TailwindSorter::get_class_category: the cached category when there is one.
get_class_category(cache, class) ==
    IF class \in DOMAIN cache THEN cache[class] ELSE compute_class_category(class)

\* compare_classes with the tie-break dropped: classes of equal category rank
\* compare Less whatever their bases and variants.
compare_classes_TieLess(sorter, cache, a, b) ==
    LET order_a == get_category_order(sorter, get_class_category(cache, split_variants(a).base))
        order_b == get_category_order(sorter, get_class_category(cache, split_variants(b).base))
    IN  IF order_a # order_b THEN CmpInt(order_a, order_b) ELSE -1

\* TailwindSorter::compare_classes: -1 Less, 0 Equal, 1 Greater.
compare_classes(sorter, cache, a, b) ==
    LET sa == split_variants(a)
        sb == split_variants(b)
        order_a == get_category_order(sorter, get_class_category(cache, sa.base))
        order_b == get_category_order(sorter, get_class_category(cache, sb.base))
        SeqCmp[i \in 1..(Len(sa.variants) + 1)] ==
            IF i > Len(sa.variants) THEN 0
            ELSE IF StrCmp(sa.variants[i], sb.variants[i]) # 0
                 THEN StrCmp(sa.variants[i], sb.variants[i])
                 ELSE SeqCmp[i + 1]
    IN  IF order_a # order_b THEN CmpInt(order_a, order_b)
        ELSE IF StrCmp(sa.base, sb.base) # 0 THEN StrCmp(sa.base, sb.base)
        ELSE IF Len(sa.variants) # Len(sb.variants)
             THEN CmpInt(Len(sa.variants), Len(sb.variants))
             ELSE SeqCmp[1]

RECURSIVE RetainFirst(_, _)
\* classes.retain(|c| seen.insert(c)): the first occurrence of each class.
RetainFirst(classes, seen) ==
    IF classes = <<>> THEN <<>>
    ELSE IF Head(classes) \in seen THEN RetainFirst(Tail(classes), seen)
         ELSE <<Head(classes)>> \o RetainFirst(Tail(classes), seen \cup {Head(classes)})

RECURSIVE InsertByOrder(_, _, _, _)
InsertByOrder(sorter, cache, sorted, c) ==
    IF sorted = <<>> THEN <<c>>
    ELSE IF compare_classes(sorter, cache, c, Head(sorted)) < 0 THEN <<c>> \o sorted
         ELSE <<Head(sorted)>> \o InsertByOrder(sorter, cache, Tail(sorted), c)

RECURSIVE SortFrom(_, _, _, _)
SortFrom(sorter, cache, classes, sorted) ==
    IF classes = <<>> THEN sorted
    ELSE SortFrom(sorter, cache, Tail(classes), InsertByOrder(sorter, cache, sorted, Head(classes)))

\* classes.sort_unstable_by(compare_classes).  The classes are distinct here
\* and compare_classes returns Equal only for identical classes, so the
\* unstable sort has one possible result: the ascending arrangement.
sort_unstable_by(sorter, cache, classes) == SortFrom(sorter, cache, classes, <<>>)

\* sort_classes returning the trimmed text on every early return, the
\* whitespace-only one included.
sort_classes_TrimsEmpty(sorter, cache, class_string) ==
    LET trimmed == Trim(class_string)
        classes == RetainFirst(SplitWhitespace(trimmed), {})
    IN  IF trimmed = "" THEN trimmed
        ELSE IF ~Contains(trimmed, " ") THEN trimmed
        ELSE IF Len(classes) = 1 THEN classes[1]
        ELSE Join(sort_unstable_by(sorter, cache, classes), " ")

\* TailwindSorter::sort_classes
sort_classes(sorter, cache, class_string) ==
    LET trimmed == Trim(class_string)
        classes == RetainFirst(SplitWhitespace(trimmed), {})
    IN  IF trimmed = "" THEN class_string
        ELSE IF ~Contains(trimmed, " ") THEN trimmed
        ELSE IF Len(classes) = 1 THEN classes[1]
        ELSE Join(sort_unstable_by(sorter, cache, classes), " ")

\* The category_cache after sort_classes: every class the comparator was
\* given (the base of each distinct token, once two or more are compared).
cache_after_sort(cache, class_string) ==
    LET trimmed == Trim(class_string)
        classes == RetainFirst(SplitWhitespace(trimmed), {})
        bases == IF Contains(trimmed, " ") /\ Len(classes) > 1
                 THEN {split_variants(classes[i]).base : i \in 1..Len(classes)}
                 ELSE {}
    IN  [b \in (DOMAIN cache) \cup bases |-> get_class_category(cache, b)]
(***************************************************************************)
(* Syntax trees and the JS/TS/JSX parser (oxc, an external library).       *)
(*                                                                         *)
(* A syntax tree is a node with a kind, the attributes the extractor reads *)
(* and a sequence of pieces: raw text (keywords, punctuation, the text of  *)
(* a literal, comments) or sub-nodes.  Render gives the source text of a   *)
(* tree; Locate gives the AST the parser returns for that text, every node *)
(* with its byte span.                                                     *)
(***************************************************************************)
Raw(s) == [isNode |-> FALSE, s |-> s]

Sub(n) == [isNode |-> TRUE, n |-> n]

Tree(kind, info, pieces) == [kind |-> kind, info |-> info, pieces |-> pieces]

RECURSIVE Render(_)
Render(t) ==
    LET R[i \in 0..Len(t.pieces)] ==
            IF i = 0 THEN ""
            ELSE R[i - 1] \o (IF t.pieces[i].isNode THEN Render(t.pieces[i].n) ELSE t.pieces[i].s)
    IN  R[Len(t.pieces)]

RECURSIVE Locate(_, _)
\* The AST of tree t whose text starts at byte offset base.
Locate(t, base) ==
    LET Off[i \in 0..Len(t.pieces)] ==
            IF i = 0 THEN base
            ELSE Off[i - 1] + Len(IF t.pieces[i].isNode THEN Render(t.pieces[i].n) ELSE t.pieces[i].s)
        nodeAt == {i \in 1..Len(t.pieces) : t.pieces[i].isNode}
        Nth[j \in 1..Cardinality(nodeAt)] ==
            CHOOSE i \in nodeAt : Cardinality({k \in nodeAt : k < i}) = j - 1
    IN  [ kind |-> t.kind, info |-> t.info,
          start |-> base, end |-> Off[Len(t.pieces)],
          kids |-> [j \in 1..Cardinality(nodeAt) |-> Locate(t.pieces[Nth[j]].n, Off[Nth[j] - 1])] ]

\* --- constructors of syntax trees -------------------------------------
NoInfo == [none |-> TRUE]

\* "content" or 'content'
StrT(q, content) == Tree("StringLiteral", NoInfo, <<Raw(q \o content \o q)>>)

IdentT(name) == Tree("Identifier", [name |-> name], <<Raw(name)>>)

\* A static template literal: one quasi, no expression.
TmplT(content) ==
    Tree("TemplateLiteral", [quasis |-> 1, cooked |-> content], <<Raw(BT \o content \o BT)>>)

\* A template literal with one interpolated expression: <BT>pre${e}<BT>
DynTmplT(pre, e) ==
    Tree("TemplateLiteral", [quasis |-> 2, cooked |-> pre],
         <<Raw(BT \o pre \o "${"), Sub(e), Raw("}" \o BT)>>)

TaggedT(tag, quasi) == Tree("TaggedTemplateExpression", NoInfo, <<Sub(tag), Sub(quasi)>>)

RECURSIVE CommaList(_)
CommaList(nodes) ==
    IF nodes = <<>> THEN <<>>
    ELSE IF Len(nodes) = 1 THEN <<Sub(nodes[1])>>
         ELSE <<Sub(nodes[1]), Raw(", ")>> \o CommaList(Tail(nodes))

\* callee(arg, ...): the callee is the first sub-node.
CallT(callee, args) ==
    Tree("CallExpression", NoInfo, <<Sub(callee), Raw("(")>> \o CommaList(args) \o <<Raw(")")>>)

\* obj.prop
MemberT(obj, prop) == Tree("StaticMemberExpression", NoInfo, <<Sub(IdentT(obj)), Raw("." \o prop)>>)

ArrayT(elements) ==
    Tree("ArrayExpression", NoInfo, <<Raw("[")>> \o CommaList(elements) \o <<Raw("]")>>)

BinaryT(left, op, right) ==
    Tree("BinaryExpression", [operator |-> op], <<Sub(left), Raw(" " \o op \o " "), Sub(right)>>)

\* key: value with an identifier key
PropT(key, value) ==
    Tree("ObjectProperty", [key_kind |-> "StaticIdentifier", key_name |-> key],
         <<Raw(key \o ": "), Sub(value)>>)

\* "key": value with a string-literal key
StrKeyPropT(key, value) ==
    Tree("ObjectProperty", [key_kind |-> "StringLiteral", key_name |-> ""],
         <<Sub(key), Raw(": "), Sub(value)>>)

ObjectT(props) ==
    Tree("ObjectExpression", NoInfo, <<Raw("{ ")>> \o CommaList(props) \o <<Raw(" }")>>)

CondT(test, a, b) ==
    Tree("ConditionalExpression", NoInfo, <<Sub(test), Raw(" ? "), Sub(a), Raw(" : "), Sub(b)>>)

\* name="..." or name='...'
JSXAttrT(name, value) ==
    Tree("JSXAttribute", [name |-> name], <<Raw(name \o "="), Sub(value)>>)

\* {expression}
JSXContainerT(e) == Tree("JSXExpressionContainer", NoInfo, <<Raw("{"), Sub(e), Raw("}")>>)

RECURSIVE SpacedList(_)
SpacedList(nodes) ==
    IF nodes = <<>> THEN <<>> ELSE <<Raw(" "), Sub(nodes[1])>> \o SpacedList(Tail(nodes))

\* <div attr ...CLOSER with CLOSER one of ">", " />" or "" (the tag is cut).
JSXElementT(attrs, closer) ==
    Tree("JSXElement", NoInfo, <<Raw("<div")>> \o SpacedList(attrs) \o <<Raw(closer)>>)

\* const NAME = e;
ConstT(name, e) ==
    Tree("VariableDeclaration", NoInfo, <<Raw("const " \o name \o " = "), Sub(e), Raw(";")>>)

\* Statements one per line, with optional comment text before the second.
ProgramT(first, between, second) ==
    Tree("Program", NoInfo, <<Sub(first), Raw("\n" \o between), Sub(second)>>)

(***************************************************************************)
(* Matches: src/src/parser/mod.rs                                          *)
(***************************************************************************)
JSXAttribute == [tag |-> "JSXAttribute"]

FunctionCall(function_name, arg_index) ==
    [tag |-> "FunctionCall", function_name |-> function_name, arg_index |-> arg_index]

\* tag: "" for None, the tag name for Some(name)
TemplateLiteral(tag_name) == [tag |-> "TemplateLiteral", tmpl_tag |-> tag_name]

ArrayElement(array_index) == [tag |-> "ArrayElement", array_index |-> array_index]

Array(elements) == [tag |-> "Array", elements |-> elements]

BinaryExpression(left_content, right_content) ==
    [tag |-> "BinaryExpression", left_content |-> left_content, right_content |-> right_content]

\* ClassMatch::new
ClassMatch(start, end, original, quote_style, pattern_type) ==
    [ start |-> start, end |-> end, original |-> original,
      quote_style |-> quote_style, pattern_type |-> pattern_type ]

(***************************************************************************)
(* ClassExtractor: src/src/parser/visitor.rs                               *)
(***************************************************************************)
DEFAULT_SUPPORTED_FUNCTIONS == {"cn", "twMerge", "clsx", "classNames", "classList", "cva"}

\* ClassExtractor::new_with_custom_functions (new is the case of no custom
\* function).
new_extractor(source_text, custom_functions) ==
    [ source_text |-> source_text,
      matches |-> <<>>,
      processed_spans |-> {},
      supported_functions |-> DEFAULT_SUPPORTED_FUNCTIONS \cup custom_functions ]

\* ClassExtractor::extract_string_value
extract_string_value(ex, start, end) ==
    IF start >= Len(ex.source_text) \/ end > Len(ex.source_text) \/ start >= end
    THEN ""
    ELSE Slice(ex.source_text, start, end)

\* ClassExtractor::detect_quote_style
detect_quote_style(ex, start, end) ==
    LET full_text == extract_string_value(ex, start, end)
    IN  IF StartsWith(full_text, "'") THEN "Single"
        ELSE IF StartsWith(full_text, "\"") THEN "Double"
        ELSE IF StartsWith(full_text, BT) THEN "Backtick"
        ELSE "Double"

\* ClassExtractor::extract_class_string_content
extract_class_string_content(ex, start, end) ==
    LET full_text == extract_string_value(ex, start, end)
        first_char == At(full_text, 1)
        last_char == At(full_text, Len(full_text))
    IN  IF /\ Len(full_text) >= 2
           /\ first_char = last_char
           /\ first_char \in {"\"", "'", BT}
        THEN Slice(full_text, 1, Len(full_text) - 1)
        ELSE full_text

\* ClassExtractor::is_class_attribute
is_class_attribute(attr_name) == attr_name \in {"className", "class"}

\* ClassExtractor::is_supported_function
is_supported_function(ex, function_name) == function_name \in ex.supported_functions

\* ClassExtractor::is_excluded_string
is_excluded_string(content) ==
    \/ \E p \in {"calc(", "clamp(", "min(", "max(", "var(", "env("} : StartsWith(content, p)
    \/ content \in {"use client", "use strict", "use server"}
    \/ \E p \in {"http://", "https://", "./", "../", "/"} : StartsWith(content, p)
    \/ Contains(content, "://") \/ Contains(content, "@") \/ Contains(content, "=")

\* The variant prefixes matches_tailwind_pattern strips.
VariantPrefixes ==
    {"sm", "md", "lg", "xl", "2xl", "dark", "hover", "focus", "active", "first", "last", "odd", "even"}

common_prefixes ==
    <<
       "block", "inline", "flex", "grid", "table", "hidden", "relative", "absolute",
       "fixed", "sticky", "static", "inset-", "top-", "right-", "bottom-", "left-",
       "z-", "float-", "clear-", "object-", "overflow-", "overscroll-", "position-", "visible",
       "invisible", "collapse", "@container", "@apply", "@screen", "@layer", "items-", "justify-",
       "gap-", "grid-", "col-", "row-", "flex-", "order-", "justify-self-", "justify-items-",
       "content-", "items-", "self-", "p-", "px-", "py-", "pt-", "pr-",
       "pb-", "pl-", "m-", "mx-", "my-", "mt-", "mr-", "mb-",
       "ml-", "space-", "-space-", "w-", "h-", "min-w-", "min-h-", "max-w-",
       "max-h-", "size-", "text-", "font-", "leading-", "tracking-", "line-", "list-",
       "placeholder-", "decoration-", "underline", "overline", "line-through", "no-underline", "bg-", "from-",
       "via-", "to-", "gradient-", "border", "border-", "rounded", "rounded-", "divide-",
       "outline-", "shadow", "shadow-", "opacity-", "ring-", "ring-", "drop-shadow-", "blur-",
       "brightness-", "contrast-", "grayscale", "invert", "saturate-", "sepia", "hue-rotate-", "filter",
       "backdrop-", "transform", "rotate-", "scale-", "translate-", "skew-", "origin-", "transition",
       "duration-", "ease-", "delay-", "animate-", "cursor-", "select-", "pointer-events-", "resize",
       "scroll-", "snap-", "touch-", "will-change-"
    >>

RECURSIVE strip_modifiers(_)
\* The loop of matches_tailwind_pattern: strip a recognized variant prefix,
\* a leading '-' or a trailing '!' until none is left.
strip_modifiers(token) ==
    LET colon_pos == Find(token, ":")
    IN  IF colon_pos # -1 /\ Slice(token, 0, colon_pos) \in VariantPrefixes
        THEN strip_modifiers(Slice(token, colon_pos + 1, Len(token)))
        ELSE IF StartsWith(token, "-") /\ Len(token) > 1
        THEN strip_modifiers(Slice(token, 1, Len(token)))
        ELSE IF EndsWith(token, "!") /\ Len(token) > 1
        THEN strip_modifiers(Slice(token, 0, Len(token) - 1))
        ELSE token

\* ClassExtractor::matches_tailwind_pattern
matches_tailwind_pattern(token) ==
    LET core == strip_modifiers(token)
    IN  \E i \in 1..Len(common_prefixes) :
            IF EndsWith(common_prefixes[i], "-")
            THEN StartsWith(core, common_prefixes[i])
            ELSE core = common_prefixes[i]

\* ClassExtractor::contains_tailwind_like_tokens
contains_tailwind_like_tokens(content) ==
    LET tokens == SplitWhitespace(content)
        tailwind_tokens == Cardinality({i \in 1..Len(tokens) : matches_tailwind_pattern(tokens[i])})
    IN  IF Len(tokens) >= 2
        THEN IF Len(tokens) <= 4 THEN tailwind_tokens >= 2
             ELSE 2 * tailwind_tokens >= Len(tokens)
        ELSE tailwind_tokens >= 1

\* ClassExtractor::looks_like_tailwind_classes
looks_like_tailwind_classes(content) ==
    LET trimmed == Trim(content)
    IN  IF is_excluded_string(trimmed) THEN FALSE
        ELSE IF Contains(trimmed, " ") THEN contains_tailwind_like_tokens(trimmed)
        ELSE matches_tailwind_pattern(trimmed)

\* The emission common to every visit method: record the span as processed
\* and push the match.
push_match(ex, class_match) ==
    [ex EXCEPT !.processed_spans = @ \cup {<<class_match.start, class_match.end>>},
               !.matches = Append(@, class_match)]

\* process_string_literal without the look-up in processed_spans.
process_string_literal_NoSpanCheck(ex, string_lit, pattern_type) ==
    LET quote_style == detect_quote_style(ex, string_lit.start, string_lit.end)
        class_content == extract_class_string_content(ex, string_lit.start, string_lit.end)
    IN  IF Trim(class_content) # "" /\ looks_like_tailwind_classes(class_content)
        THEN push_match(ex, ClassMatch(string_lit.start, string_lit.end, class_content,
                                       quote_style, pattern_type))
        ELSE ex

\* ClassExtractor::process_string_literal
process_string_literal(ex, string_lit, pattern_type) ==
    LET span_key == <<string_lit.start, string_lit.end>>
        quote_style == detect_quote_style(ex, string_lit.start, string_lit.end)
        class_content == extract_class_string_content(ex, string_lit.start, string_lit.end)
    IN  IF span_key \in ex.processed_spans THEN ex
        ELSE IF Trim(class_content) # "" /\ looks_like_tailwind_classes(class_content)
        THEN push_match(ex, ClassMatch(string_lit.start, string_lit.end, class_content,
                                       quote_style, pattern_type))
        ELSE ex

\* ClassExtractor::is_static_template_literal
is_static_template_literal(template) == Len(template.kids) = 0 /\ template.info.quasis = 1

\* ClassExtractor::visit_string_literal
visit_string_literal(ex, lit) == process_string_literal(ex, lit, FunctionCall("general", 0))

\* A call whose argument is evaluated once, before the call, as Rust does:
\* F(a) with a as a value.
ByValue(F(_), a) == CHOOSE r \in {F(x) : x \in {a}} : TRUE

RECURSIVE Visit(_, _)
RECURSIVE VisitAll(_, _)
RECURSIVE process_function_arguments(_, _, _, _)

\* The default walk: visit the nodes in source order.
VisitAll(ex, nodes) ==
    IF nodes = <<>> THEN ex ELSE VisitAll(Visit(ex, nodes[1]), Tail(nodes))

\* ClassExtractor::process_function_arguments; arg_index counts from 0.
process_function_arguments(ex, function_name, arguments, arg_index) ==
    IF arg_index >= Len(arguments) THEN ex
    ELSE LET arg == arguments[arg_index + 1]
             one(e) == IF arg.kind = "StringLiteral"
                       THEN process_string_literal(e, arg, FunctionCall(function_name, arg_index))
                       ELSE Visit(e, arg)
         IN  process_function_arguments(ByValue(one, ex), function_name, arguments, arg_index + 1)

\* ClassExtractor::visit_jsx_attribute
visit_jsx_attribute(ex, attr) ==
    LET first == IF /\ is_class_attribute(attr.info.name)
                    /\ Len(attr.kids) = 1
                    /\ attr.kids[1].kind = "StringLiteral"
                 THEN process_string_literal(ex, attr.kids[1], JSXAttribute)
                 ELSE ex
    IN  VisitAll(first, attr.kids)

\* visit_call_expression that walks the arguments of an unsupported call
\* like any other node.
visit_call_expression_VisitsArguments(ex, call) ==
    LET callee == call.kids[1]
        arguments == Tail(call.kids)
    IN  IF callee.kind = "Identifier" /\ is_supported_function(ex, callee.info.name)
        THEN process_function_arguments(ex, callee.info.name, arguments, 0)
        ELSE VisitAll(Visit(ex, callee), arguments)

\* ClassExtractor::visit_call_expression
visit_call_expression(ex, call) ==
    LET callee == call.kids[1]
        arguments == Tail(call.kids)
    IN  IF callee.kind = "Identifier"
        THEN IF is_supported_function(ex, callee.info.name)
             THEN process_function_arguments(ex, callee.info.name, arguments, 0)
             ELSE Visit(ex, callee)
        ELSE VisitAll(Visit(ex, callee), arguments)

\* ClassExtractor::visit_template_literal
visit_template_literal(ex, template) ==
    LET content == template.info.cooked
        first == IF /\ is_static_template_literal(template)
                    /\ Trim(content) # "" /\ looks_like_tailwind_classes(content)
                    /\ <<template.start, template.end>> \notin ex.processed_spans
                 THEN push_match(ex, ClassMatch(template.start, template.end, content,
                                                "Backtick", TemplateLiteral("")))
                 ELSE ex
    IN  VisitAll(first, template.kids)

\* ClassExtractor::visit_tagged_template_expression
visit_tagged_template_expression(ex, tagged) ==
    LET tag == tagged.kids[1]
        quasi == tagged.kids[2]
        tag_name == IF tag.kind = "Identifier" THEN tag.info.name ELSE ""
        content == quasi.info.cooked
        first == IF /\ is_static_template_literal(quasi)
                    /\ Trim(content) # "" /\ looks_like_tailwind_classes(content)
                    /\ <<quasi.start, quasi.end>> \notin ex.processed_spans
                 THEN push_match(ex, ClassMatch(quasi.start, quasi.end, content,
                                                "Backtick", TemplateLiteral(tag_name)))
                 ELSE ex
    IN  Visit(Visit(first, tag), quasi)

\* ClassExtractor::visit_array_expression
visit_array_expression(ex, array) ==
    LET elements == array.kids
        string_elements ==
            [i \in 1..Len(elements) |->
                extract_class_string_content(ex, elements[i].start, elements[i].end)]
        total_strings == Len(elements)
        tailwind_elements ==
            Cardinality({i \in 1..Len(elements) : looks_like_tailwind_classes(string_elements[i])})
        quote_style == detect_quote_style(ex, elements[1].start, elements[1].end)
    IN  IF \E i \in 1..Len(elements) : elements[i].kind # "StringLiteral"
        THEN VisitAll(ex, elements)
        ELSE IF /\ total_strings > 0
                /\ (2 * tailwind_elements >= total_strings \/ Len(string_elements) = 1)
                /\ <<array.start, array.end>> \notin ex.processed_spans
        THEN push_match(ex, ClassMatch(array.start, array.end, Join(string_elements, " "),
                                       quote_style, Array(string_elements)))
        ELSE ex

\* ClassExtractor::visit_object_property
visit_object_property(ex, prop) ==
    LET value == prop.kids[Len(prop.kids)]
        span_key == <<value.start, value.end>>
        content == extract_class_string_content(ex, value.start, value.end)
        marked == [ex EXCEPT !.processed_spans = @ \cup {span_key}]
        first == IF /\ prop.info.key_kind = "StaticIdentifier"
                    /\ is_class_attribute(prop.info.key_name)
                    /\ value.kind = "StringLiteral"
                    /\ span_key \notin ex.processed_spans
                 THEN IF looks_like_tailwind_classes(content)
                      THEN push_match(ex, ClassMatch(value.start, value.end, content,
                                          detect_quote_style(ex, value.start, value.end),
                                          JSXAttribute))
                      ELSE marked
                 ELSE ex
    IN  VisitAll(first, prop.kids)

\* ClassExtractor::visit_binary_expression
visit_binary_expression(ex, expr) ==
    LET left == expr.kids[1]
        right == expr.kids[2]
        left_content == extract_class_string_content(ex, left.start, left.end)
        right_content == extract_class_string_content(ex, right.start, right.end)
        span_key == <<expr.start, expr.end>>
        combined_classes == Trim(left_content) \o " " \o Trim(right_content)
        marked == [ex EXCEPT !.processed_spans = @ \cup {span_key}]
    IN  IF /\ expr.info.operator = "+"
           /\ left.kind = "StringLiteral" /\ right.kind = "StringLiteral"
           /\ looks_like_tailwind_classes(left_content)
           /\ looks_like_tailwind_classes(right_content)
        THEN IF span_key \in ex.processed_spans THEN ex
             ELSE IF looks_like_tailwind_classes(combined_classes)
             THEN push_match(ex, ClassMatch(expr.start, expr.end, combined_classes,
                                 detect_quote_style(ex, left.start, left.end),
                                 BinaryExpression(left_content, right_content)))
             ELSE marked
        ELSE VisitAll(ex, expr.kids)

\* The dispatch of the Visit trait: the overridden methods above, the
\* default walk for every other node.
Visit(ex, node) ==
    LET method(e) ==
            CASE node.kind = "JSXAttribute"             -> visit_jsx_attribute(e, node)
              [] node.kind = "CallExpression"           -> visit_call_expression(e, node)
              [] node.kind = "StringLiteral"            -> visit_string_literal(e, node)
              [] node.kind = "TemplateLiteral"          -> visit_template_literal(e, node)
              [] node.kind = "TaggedTemplateExpression" -> visit_tagged_template_expression(e, node)
              [] node.kind = "ArrayExpression"          -> visit_array_expression(e, node)
              [] node.kind = "ObjectProperty"           -> visit_object_property(e, node)
              [] node.kind = "BinaryExpression"         -> visit_binary_expression(e, node)
              [] OTHER                                  -> VisitAll(e, node.kids)
    IN  ByValue(method, ex)

(***************************************************************************)
(* FileParser: src/src/parser/mod.rs                                       *)
(***************************************************************************)
\* FileParser::new_with_custom_functions
new_parser(custom_functions) == [custom_functions |-> custom_functions]

\* Path::extension of a file name
Extension(file_path) ==
    IF RFind(file_path, ".") = -1 THEN ""
    ELSE Slice(file_path, RFind(file_path, ".") + 1, Len(file_path))

\* FileParser::detect_source_type
detect_source_type(file_path) ==
    LET extension == Extension(file_path)
    IN  CASE extension = "ts"  -> [typescript |-> TRUE,  jsx |-> FALSE]
          [] extension = "tsx" -> [typescript |-> TRUE,  jsx |-> TRUE]
          [] extension = "jsx" -> [typescript |-> FALSE, jsx |-> TRUE]
          [] extension = "js"  -> [typescript |-> FALSE, jsx |-> FALSE]
          [] OTHER             -> [typescript |-> FALSE, jsx |-> TRUE]

WRAP_OPEN == "const Component = () => ("

WRAP_CLOSE == ");"

\* FileParser::wrap_jsx_if_needed
wrap_jsx_if_needed(source_text) ==
    LET trimmed == Trim(source_text)
        closed_source ==
            IF ~Contains(trimmed, ">") THEN trimmed \o " />"
            ELSE IF /\ EndsWith(trimmed, ">") /\ ~EndsWith(trimmed, "/>")
                    /\ ~Contains(trimmed, "</")
            THEN ReplaceAll(trimmed, ">", " />")
            ELSE trimmed
        wrapped == WRAP_OPEN \o closed_source \o WRAP_CLOSE
    IN  IF /\ StartsWith(trimmed, "<")
           /\ ~Contains(trimmed, "function") /\ ~Contains(trimmed, "const")
           /\ ~Contains(trimmed, "export")
        THEN [wrapped |-> wrapped, offset |-> SetMax({0, Find(wrapped, closed_source)})]
        ELSE [wrapped |-> source_text, offset |-> 0]

\* --- the parser proper (oxc) ------------------------------------------
RECURSIVE CloseTags(_)
\* The tree of the text in which every '>' has become " />".
CloseTags(t) ==
    [t EXCEPT !.pieces =
        [i \in 1..Len(t.pieces) |->
            IF t.pieces[i].isNode THEN Sub(CloseTags(t.pieces[i].n))
            ELSE Raw(ReplaceAll(t.pieces[i].s, ">", " />"))]]

\* The tree of the text followed by " />".
AppendClose(t) == [t EXCEPT !.pieces = Append(@, Raw(" />"))]

\* The arrow-function component wrap_jsx_if_needed builds around an element.
WrappedT(element) ==
    Tree("Program", NoInfo, <<Raw(WRAP_OPEN), Sub(element), Raw(WRAP_CLOSE)>>)

\* A lone JSX element with whitespace around it, as the text of a file.
FragmentT(lead, element, trail) ==
    Tree("Fragment", NoInfo, <<Raw(lead), Sub(element), Raw(trail)>>)

RECURSIVE TailText(_, _)
\* The raw text after the last sub-node of a node.
TailText(pieces, i) ==
    IF i = 0 \/ pieces[i].isNode THEN "" ELSE TailText(pieces, i - 1) \o pieces[i].s

RECURSIVE WellFormed(_, _)
\* The grammar: a JSX element without children is complete only when it is
\* self-closed, and JSX needs a JSX source type.
WellFormed(t, source_type) ==
    /\ t.kind = "JSXElement" => (source_type.jsx /\ TailText(t.pieces, Len(t.pieces)) = " />")
    /\ \A i \in 1..Len(t.pieces) :
          t.pieces[i].isNode => WellFormed(t.pieces[i].n, source_type)

\* The syntax trees a document and its wrapped forms can have.
SyntaxCandidates(doc) ==
    IF doc.kind = "Fragment"
    THEN LET element == doc.pieces[2].n
         IN  {doc, WrappedT(element), WrappedT(CloseTags(element)), WrappedT(AppendClose(element))}
    ELSE {doc}

\* Parser::new(allocator, text, source_type).parse() for a text that is
\* the file of document doc or a wrapped form of it: the AST with its
\* spans, or the number of syntax errors.
OxcParse(doc, text, source_type) ==
    LET trees == {t \in SyntaxCandidates(doc) : Render(t) = text /\ WellFormed(t, source_type)}
    IN  IF trees = {} THEN [errors |-> 1, program |-> Locate(Tree("Program", NoInfo, <<>>), 0)]
        ELSE [errors |-> 0, program |-> Locate(CHOOSE t \in trees : TRUE, 0)]

\* The loop of parse_source_with_path that moves the spans back.
adjust_spans(matches, offset) ==
    [i \in 1..Len(matches) |->
        IF offset > 0 /\ matches[i].start >= offset /\ matches[i].end >= offset
        THEN [matches[i] EXCEPT !.start = @ - offset, !.end = @ - offset]
        ELSE matches[i]]

\* parse_source_with_path without the look at the parser's diagnostics.
parse_source_with_path_IgnoresErrors(parser, doc, source_text, source_type, file_path) ==
    LET w == wrap_jsx_if_needed(source_text)
        parsed == OxcParse(doc, w.wrapped, source_type)
        extractor == Visit(new_extractor(w.wrapped, parser.custom_functions), parsed.program)
    IN  [ok |-> TRUE, matches |-> adjust_spans(extractor.matches, w.offset),
         extracted |-> extractor.matches,
         err |-> [kind |-> "None", file |-> "", line |-> 0, message |-> ""]]

\* FileParser::parse_source_with_path
parse_source_with_path(parser, doc, source_text, source_type, file_path) ==
    LET w == wrap_jsx_if_needed(source_text)
        parsed == OxcParse(doc, w.wrapped, source_type)
        extractor == Visit(new_extractor(w.wrapped, parser.custom_functions), parsed.program)
    IN  IF parsed.errors # 0
        THEN [ok |-> FALSE, matches |-> <<>>, extracted |-> <<>>,
              err |-> [kind |-> "ParseError", file |-> file_path, line |-> 1,
                       message |-> "Syntax error in file"]]
        ELSE [ok |-> TRUE, matches |-> adjust_spans(extractor.matches, w.offset),
              extracted |-> extractor.matches,
              err |-> [kind |-> "None", file |-> "", line |-> 0, message |-> ""]]

\* FileParser::parse_file
parse_file(parser, doc, file_path, source_text) ==
    parse_source_with_path(parser, doc, source_text, detect_source_type(file_path), file_path)

(***************************************************************************)
(* FileProcessor: src/src/processor/mod.rs                                 *)
(***************************************************************************)
\* ProcessOptions
ProcessOptions(dry_run, write, check_formatted) ==
    [dry_run |-> dry_run, write |-> write, check_formatted |-> check_formatted]

\* ConfigManager::get_function_names
get_function_names(config) == DEFAULT_SUPPORTED_FUNCTIONS \cup config.function_names

\* FileProcessor::new_with_config
new_with_config(config) ==
    [ parser |-> new_parser(get_function_names(config)),
      sorter |-> sorter_for_config(config),
      config |-> config ]

RECURSIVE insert_by_start(_, _)
\* Insert m after every match whose start is not smaller than its own.
insert_by_start(sorted, m) ==
    IF sorted = <<>> THEN <<m>>
    ELSE IF Head(sorted).start >= m.start
         THEN <<Head(sorted)>> \o insert_by_start(Tail(sorted), m)
         ELSE <<m>> \o sorted

RECURSIVE sort_by_start_desc(_)
\* sorted_matches.sort_by(|a, b| b.start.cmp(&a.start)): stable, descending.
sort_by_start_desc(matches) ==
    IF matches = <<>> THEN <<>>
    ELSE insert_by_start(sort_by_start_desc(SubSeq(matches, 1, Len(matches) - 1)),
                         matches[Len(matches)])

\* The quote character of a QuoteStyle.
quote_char_of(quote_style) ==
    CASE quote_style = "Single"   -> "'"
      [] quote_style = "Double"   -> "\""
      [] quote_style = "Backtick" -> BT

\* result.replace_range(start..end, with) behind the bounds check of the
\* span-based branches.
replace_span(result, class_match, with) ==
    IF class_match.start < Len(result) /\ class_match.end <= Len(result)
    THEN ReplaceRange(result, class_match.start, class_match.end, with)
    ELSE result

\* The PatternType::JSXAttribute branch: replace the first occurrence of the
\* quoted original.
replace_jsx_attribute(result, class_match, quote_char, replacement) ==
    LET search_pattern == quote_char \o class_match.original \o quote_char
        start_pos == Find(result, search_pattern)
    IN  IF start_pos # -1
        THEN ReplaceRange(result, start_pos, start_pos + Len(search_pattern), replacement)
        ELSE result

\* array_replacement, were every element written in double quotes.
array_replacement_DoubleQuoted(sorted_classes, element_quote_char) ==
    LET words == SplitWhitespace(sorted_classes)
        sorted_elements == [i \in 1..Len(words) |-> "\"" \o words[i] \o "\""]
    IN  "[" \o Join(sorted_elements, ", ") \o "]"

\* The PatternType::Array branch.
array_replacement(sorted_classes, element_quote_char) ==
    LET words == SplitWhitespace(sorted_classes)
        sorted_elements ==
            [i \in 1..Len(words) |-> element_quote_char \o words[i] \o element_quote_char]
    IN  "[" \o Join(sorted_elements, ", ") \o "]"

\* binary_replacement, were the sorted words always split in half.
binary_replacement_Halved(sorted_classes, left_content, quote_char) ==
    LET sorted_words == SplitWhitespace(sorted_classes)
        split_point == Len(sorted_words) \div 2
        new_left == Join(SubSeq(sorted_words, 1, split_point), " ")
        new_right == Join(SubSeq(sorted_words, split_point + 1, Len(sorted_words)), " ")
    IN  quote_char \o new_left \o quote_char \o " + " \o quote_char \o new_right \o quote_char

\* The PatternType::BinaryExpression branch.
binary_replacement(sorted_classes, left_content, quote_char) ==
    LET sorted_words == SplitWhitespace(sorted_classes)
        left_word_count == Len(SplitWhitespace(left_content))
        split_point == IF left_word_count <= Len(sorted_words) THEN left_word_count
                       ELSE Len(sorted_words) \div 2
        new_left == Join(SubSeq(sorted_words, 1, split_point), " ")
        new_right == Join(SubSeq(sorted_words, split_point + 1, Len(sorted_words)), " ")
    IN  quote_char \o new_left \o quote_char \o " + " \o quote_char \o new_right \o quote_char

\* The loop body without the comparison of sorted_classes with the original:
\* every match is replaced and counts as a change.
rewrite_match_Unconditional(sorter, acc, class_match) ==
    LET sorted_classes == sort_classes(sorter, acc.cache, class_match.original)
        quote_char == quote_char_of(class_match.quote_style)
    IN  [result |-> replace_jsx_attribute(acc.result, class_match, quote_char,
                                          quote_char \o sorted_classes \o quote_char),
         changes_made |-> TRUE,
         cache |-> cache_after_sort(acc.cache, class_match.original)]

\* The body of the loop of process_content for one match; acc holds result,
\* changes_made and the sorter's cache.
rewrite_match(sorter, acc, class_match) ==
    LET quote_char == quote_char_of(class_match.quote_style)
        tag == class_match.pattern_type.tag
        rewritten(sorted_classes) ==
            LET replacement == quote_char \o sorted_classes \o quote_char
            IN  CASE tag = "JSXAttribute" ->
                        replace_jsx_attribute(acc.result, class_match, quote_char, replacement)
                  [] tag = "FunctionCall" -> replace_span(acc.result, class_match, replacement)
                  [] tag = "TemplateLiteral" ->
                        replace_span(acc.result, class_match, BT \o sorted_classes \o BT)
                  [] tag = "ArrayElement" -> replace_span(acc.result, class_match, replacement)
                  [] tag = "Array" ->
                        replace_span(acc.result, class_match,
                                     array_replacement(sorted_classes, quote_char))
                  [] tag = "BinaryExpression" ->
                        replace_span(acc.result, class_match,
                                     binary_replacement(sorted_classes,
                                         class_match.pattern_type.left_content, quote_char))
        step(sorted_classes) ==
            IF sorted_classes # class_match.original
            THEN [acc EXCEPT !.result = rewritten(sorted_classes), !.changes_made = TRUE]
            ELSE acc
        sorted == ByValue(step, sort_classes(sorter, acc.cache, class_match.original))
    IN  [sorted EXCEPT !.cache = cache_after_sort(acc.cache, class_match.original)]

RECURSIVE rewrite_all(_, _, _)
\* for class_match in sorted_matches { ... }
rewrite_all(sorter, acc, sorted_matches) ==
    IF sorted_matches = <<>> THEN acc
    ELSE LET one(a) == rewrite_match(sorter, a, Head(sorted_matches))
         IN  rewrite_all(sorter, ByValue(one, acc), Tail(sorted_matches))

\* FileProcessor::process_content.  The value returned is ret (ok and the
\* string, or the error); written is whether write_file_safely ran, with
\* result as the new file content.  doc is the document the content is the
\* text of, for the parser.
process_content(processor, cache, doc, content, file_path, options) ==
    LET preview == options.dry_run \/ ~options.write
        idle(parsed) ==
            [ok |-> parsed.ok, value |-> "", err |-> parsed.err,
             matches |-> parsed.matches, extracted |-> parsed.extracted,
             sorted_matches |-> <<>>, result |-> content,
             changes_made |-> FALSE, written |-> FALSE, cache |-> cache]
        finish(parsed, sorted_matches, acc) ==
            LET done == [idle(parsed) EXCEPT !.sorted_matches = sorted_matches,
                                             !.result = acc.result,
                                             !.changes_made = acc.changes_made,
                                             !.cache = acc.cache]
            IN  IF options.check_formatted THEN [done EXCEPT !.value = content]
                ELSE IF options.write /\ acc.changes_made THEN [done EXCEPT !.written = TRUE]
                ELSE IF preview THEN [done EXCEPT !.value = acc.result]
                ELSE done
        rewrite(parsed) ==
            LET loop(sorted_matches) ==
                    LET end(acc) == finish(parsed, sorted_matches, acc)
                    IN  ByValue(end, rewrite_all(processor.sorter,
                                    [result |-> content, changes_made |-> FALSE, cache |-> cache],
                                    sorted_matches))
            IN  ByValue(loop, sort_by_start_desc(parsed.matches))
        body(parsed) ==
            IF ~parsed.ok THEN idle(parsed)
            ELSE IF parsed.matches = <<>>
            THEN [idle(parsed) EXCEPT !.value = IF preview THEN content ELSE ""]
            ELSE rewrite(parsed)
    IN  ByValue(body, parse_file(processor.parser, doc, file_path, content))

(***************************************************************************)
(* FileProcessingPipeline: src/src/file_processor.rs                       *)
(***************************************************************************)
\* Option<T>
None == <<>>

Some(x) == <<x>>

\* What a path holds: the text, the syntax of the text, and whether a read
\* succeeds ("ok") or with which io::ErrorKind it fails.
FileEntry(doc, text, io) == [doc |-> doc, text |-> text, io |-> io]

\* FileProcessingResult::success
success(file_path, changes_made, original_content, processed_content) ==
    [ file_path |-> file_path, success |-> TRUE, changes_made |-> changes_made,
      original_content |-> Some(original_content),
      processed_content |-> Some(processed_content), error |-> None ]

\* FileProcessingResult::error
error(file_path, error_msg) ==
    [ file_path |-> file_path, success |-> FALSE, changes_made |-> FALSE,
      original_content |-> None, processed_content |-> None, error |-> Some(error_msg) ]

\* BatchProcessingResults::new
new_results ==
    [ total_files |-> 0, processed_files |-> 0, files_with_changes |-> 0,
      failed_files |-> 0, results |-> <<>> ]

\* add_result, were a failed file not counted in failed_files.
add_result_ErrorsUncounted(self, result) ==
    [ total_files |-> self.total_files + 1,
      processed_files |-> self.processed_files + (IF result.success THEN 1 ELSE 0),
      files_with_changes |->
          self.files_with_changes + (IF result.success /\ result.changes_made THEN 1 ELSE 0),
      failed_files |-> self.failed_files,
      results |-> Append(self.results, result) ]

\* add_result, were every result with changes_made counted as a change.
add_result_CountsAnyChange(self, result) ==
    [ total_files |-> self.total_files + 1,
      processed_files |-> self.processed_files + (IF result.success THEN 1 ELSE 0),
      files_with_changes |-> self.files_with_changes + (IF result.changes_made THEN 1 ELSE 0),
      failed_files |-> self.failed_files + (IF result.success THEN 0 ELSE 1),
      results |-> Append(self.results, result) ]

\* BatchProcessingResults::add_result
add_result(self, result) ==
    [ total_files |-> self.total_files + 1,
      processed_files |-> self.processed_files + (IF result.success THEN 1 ELSE 0),
      files_with_changes |->
          self.files_with_changes + (IF result.success /\ result.changes_made THEN 1 ELSE 0),
      failed_files |-> self.failed_files + (IF result.success THEN 0 ELSE 1),
      results |-> Append(self.results, result) ]

\* ProcessingMode
Sequential == [kind |-> "Sequential", num_threads |-> 1]

Parallel == [kind |-> "Parallel", num_threads |-> 0]

ParallelWithThreads(n) == [kind |-> "ParallelWithThreads", num_threads |-> n]

\* fs::read_to_string and the message of a failed read.
read_to_string(fs, file_path) ==
    LET entry == fs[file_path]
    IN  IF entry.io = "ok"
        THEN [ok |-> TRUE, content |-> entry.text, doc |-> entry.doc, error_msg |-> ""]
        ELSE [ok |-> FALSE, content |-> "", doc |-> entry.doc,
              error_msg |->
                  CASE entry.io = "NotFound" -> "File not found: " \o file_path
                    [] entry.io = "PermissionDenied" -> "Permission denied: " \o file_path
                    [] entry.io = "InvalidData" ->
                           "File contains invalid UTF-8: " \o file_path
                    [] OTHER -> "Failed to read file " \o file_path \o ": " \o entry.io]

\* The message process_single_file_with_processor gives an error of process_content.
processing_error_msg(err) ==
    IF err.kind = "ParseError"
    THEN "Parse error in " \o err.file \o " at line 1: " \o err.message
    ELSE "Processing failed: " \o err.kind

RECURSIVE process_calls(_, _, _, _, _, _)
\* The calls of process_content in process_single_file_with_processor and
\* the result made of them.  earlier holds what the calls made so far
\* returned: none at the call with the caller's options, the first at the
\* second call, which verify mode makes in dry-run mode.
process_calls(processor, cache, read, file_path, options, earlier) ==
    LET temp_options == ProcessOptions(TRUE, FALSE, FALSE)
        differs(processed) == read.content /= processed /\ processed /= ""
        then(out) ==
            IF earlier /= <<>>
            THEN [ result |-> success(file_path, out.ok /\ differs(out.value),
                                      read.content, earlier[1].value),
                   written |-> FALSE, text |-> "", cache |-> out.cache ]
            ELSE IF ~out.ok
            THEN [ result |-> error(file_path, processing_error_msg(out.err)),
                   written |-> FALSE, text |-> "", cache |-> out.cache ]
            ELSE IF options.check_formatted
            THEN process_calls(processor, out.cache, read, file_path, options, <<out>>)
            ELSE [ result |-> success(file_path, differs(out.value), read.content, out.value),
                   written |-> out.written, text |-> out.result, cache |-> out.cache ]
    IN  ByValue(then, process_content(processor, cache, read.doc, read.content, file_path,
                                      IF earlier = <<>> THEN options ELSE temp_options))

\* process_single_file_with_processor, from the content it read on.
process_read_content(processor, cache, read, file_path, options) ==
    process_calls(processor, cache, read, file_path, options, <<>>)

\* FileProcessingPipeline::process_single_file_with_processor
process_single_file_with_processor(processor, cache, fs, file_path, options) ==
    LET read == read_to_string(fs, file_path)
    IN  IF ~read.ok
        THEN [ result |-> error(file_path, read.error_msg),
               written |-> FALSE, text |-> "", cache |-> cache ]
        ELSE process_read_content(processor, cache, read, file_path, options)

\* The file system after a call that wrote text to file_path, or did not.
write_back(fs, file_path, out) ==
    IF out.written
    THEN [fs EXCEPT ![file_path] = [@ EXCEPT !.text = out.text]]
    ELSE fs

RECURSIVE sequential_loop(_, _, _, _, _)
\* The loop of process_files_sequential from file i on: one processor, and
\* so one category cache, for all the files.
sequential_loop(processor, acc, files, i, options) ==
    IF i > Len(files) THEN acc
    ELSE LET rest(out) ==
                 sequential_loop(processor,
                                 [results |-> add_result(acc.results, out.result),
                                  cache |-> out.cache,
                                  fs |-> write_back(acc.fs, files[i], out)],
                                 files, i + 1, options)
         IN  ByValue(rest, process_single_file_with_processor(processor, acc.cache, acc.fs,
                                                              files[i], options))

\* FileProcessingPipeline::process_files_sequential
process_files_sequential(processor, files, fs, options) ==
    sequential_loop(processor, [results |-> new_results, cache |-> <<>>, fs |-> fs],
                    files, 1, options)

(***************************************************************************)
(* State.                                                                  *)
(***************************************************************************)
VARIABLES
    config,          \* the Config the FileProcessor was built from
    sorter,          \* FileProcessor.sorter
    category_cache,  \* TailwindSorter.category_cache
    class_string,    \* the argument of a direct sort_classes call
    sorted_once,     \* sort_classes(class_string)
    sorted_twice,    \* sort_classes(sorted_once)
    sort_pc,         \* "input", "sorted", "resorted"; "idle" when a file is processed
    parser,          \* FileProcessor.parser
    doc,             \* the document in the file, as a syntax tree
    file_path,       \* the path of the file
    content,         \* the text of the file when process_content is called
    options,         \* the ProcessOptions of the call
    disk,            \* the text of the file on disk
    writes,          \* how many times the file was written
    extracted,       \* the matches of the extractor, before the spans are moved back
    matches,         \* what parse_file returned, in emission order
    result,          \* the local result of process_content at its end
    changes_made,    \* the local changes_made of process_content at its end
    ret,             \* what process_content returned
    file_pc,         \* "input", "processed"; "idle" when the sorter is used directly
    files,           \* the files discover_files returned, in order
    fs_discovered,   \* the file system when process_files was called
    fs,              \* the file system: what each path holds
    processing_mode, \* FileProcessingPipeline.processing_mode
    tasks,           \* per file: how far its processing is, what it read, its result
    results,         \* the BatchProcessingResults being filled
    batch_pc,        \* "running", "returned"; "idle" when no batch is processed
    literal_content, \* the argument of a direct looks_like_tailwind_classes call
    looks_like,      \* what the call returned
    heuristic_pc,    \* "input", "decided"; "idle" when the heuristic is not used directly
    dir,             \* the directory of an AtomicWriter: what target_path and temp_path hold
    writer,          \* the AtomicWriter: temp_file, and what it was given so far
    atomic_pc,       \* "start", "open", "write_failed", "failed", "committed", "dropped"; "idle"
    atomic_ret,      \* what the last AtomicWriter call returned: "none", "ok", "err"
    lookups,         \* the direct get_class_category calls so far: class, base_class, category
    category_pc      \* "base", "form", "done"; "idle" when no category is looked up directly

sortVars == <<config, sorter, category_cache, class_string, sorted_once, sorted_twice, sort_pc>>

fileVars == <<parser, doc, file_path, content, options, disk, writes, extracted, matches, result,
              changes_made, ret, file_pc>>

batchVars == <<files, fs_discovered, fs, processing_mode, tasks, results, batch_pc>>

heuristicVars == <<literal_content, looks_like, heuristic_pc>>

atomicVars == <<dir, writer, atomic_pc, atomic_ret>>

categoryVars == <<lookups, category_pc>>

vars == <<sortVars, fileVars, batchVars, heuristicVars, atomicVars, categoryVars>>

\* The FileProcessor the state holds.
processor == [parser |-> parser, sorter |-> sorter, config |-> config]

(***************************************************************************)
(* Inputs of the sorter.                                                   *)
(***************************************************************************)
\* Class tokens: recognized categories of different rank, a variant form of
\* a base that also occurs bare, and unknown classes with and without variant.
Vocabulary == {"p-4", "flex", "hover:flex", "zzz", "md:abc"}

\* What separates two tokens: a space or a tab.
Separators == {" ", "\t"}

\* Leading and trailing whitespace around the class list.
Paddings == {<<"", "">>, <<"  ", "\n">>}

RECURSIVE TokenStrings(_)
\* Every class list of exactly n tokens.
TokenStrings(n) ==
    IF n = 1 THEN Vocabulary
    ELSE {s \o sep \o t : s \in TokenStrings(n - 1), sep \in Separators, t \in Vocabulary}

ClassStrings ==
    {"", " ", "\t\n"} \cup
    {pad[1] \o s \o pad[2] : s \in UNION {TokenStrings(n) : n \in 1..MaxTokens}, pad \in Paddings}

\* Configurations a config file may hold; validate_config decides which load.
CandidateConfigs ==
    { Config("official", <<>>, {}),
      Config("custom", <<"layout", "spacing">>, {}),
      Config("custom", <<"unknown", "spacing", "flexbox-grid">>, {}),
      Config("custom", <<"layout", "bogus">>, {}),
      Config("custom", <<>>, {}) }

(***************************************************************************)
(* Direct use of the sorter: sort a class list, then sort the result.      *)
(***************************************************************************)
NoDoc == Tree("Program", NoInfo, <<>>)

NoRet == [ok |-> TRUE, value |-> "", err |-> "None"]

\* No file is being processed.
FileIdle ==
    /\ parser = new_with_config(config).parser
    /\ doc = NoDoc
    /\ file_path = ""
    /\ content = ""
    /\ options = ProcessOptions(FALSE, FALSE, FALSE)
    /\ disk = ""
    /\ writes = 0
    /\ extracted = <<>>
    /\ matches = <<>>
    /\ result = ""
    /\ changes_made = FALSE
    /\ ret = NoRet
    /\ file_pc = "idle"

\* The heuristic is not called directly.
HeuristicIdle ==
    /\ literal_content = ""
    /\ looks_like = FALSE
    /\ heuristic_pc = "idle"

\* No AtomicWriter is in use.
NoWriter == [temp_file |-> FALSE, given |-> "", calls |-> 0, before |-> <<>>]

AtomicIdle ==
    /\ dir = [target |-> <<>>, temp |-> <<>>]
    /\ writer = NoWriter
    /\ atomic_pc = "idle"
    /\ atomic_ret = "none"

\* No category is looked up directly.
CategoryIdle ==
    /\ lookups = <<>>
    /\ category_pc = "idle"

\* No batch is being processed.
BatchIdle ==
    /\ files = <<>>
    /\ fs_discovered = <<>>
    /\ fs = <<>>
    /\ processing_mode = Sequential
    /\ tasks = <<>>
    /\ results = new_results
    /\ batch_pc = "idle"

InitSort ==
    /\ config \in {c \in CandidateConfigs : validate_config(c)}
    /\ sorter = new_with_config(config).sorter
    /\ category_cache = <<>>
    /\ class_string \in ClassStrings
    /\ sorted_once = ""
    /\ sorted_twice = ""
    /\ sort_pc = "input"
    /\ FileIdle
    /\ BatchIdle
    /\ HeuristicIdle
    /\ AtomicIdle
    /\ CategoryIdle

SortClasses ==
    /\ sort_pc = "input"
    /\ sorted_once' = sort_classes(sorter, category_cache, class_string)
    /\ category_cache' = cache_after_sort(category_cache, class_string)
    /\ sort_pc' = "sorted"
    /\ UNCHANGED <<atomicVars, categoryVars, heuristicVars, config, sorter, class_string, sorted_twice, fileVars, batchVars>>

SortAgain ==
    /\ sort_pc = "sorted"
    /\ sorted_twice' = sort_classes(sorter, category_cache, sorted_once)
    /\ category_cache' = cache_after_sort(category_cache, sorted_once)
    /\ sort_pc' = "resorted"
    /\ UNCHANGED <<atomicVars, categoryVars, heuristicVars, config, sorter, class_string, sorted_once, fileVars, batchVars>>

NextSort == SortClasses \/ SortAgain

SpecSort == InitSort /\ [][NextSort]_vars

(***************************************************************************)
(* Building a sorter through the public constructors, from any Config or   *)
(* custom order, validated or not, and using it.                           *)
(***************************************************************************)
InitBuild ==
    /\ config \in CandidateConfigs
    /\ sorter \in { new_with_config(config).sorter,
                    new_with_custom_order(SomeOrder(config.custom_order)),
                    new_with_custom_order(NoOrder) }
    /\ category_cache = <<>>
    /\ class_string \in TokenStrings(1) \cup TokenStrings(2)
    /\ sorted_once = ""
    /\ sorted_twice = ""
    /\ sort_pc = "input"
    /\ FileIdle
    /\ BatchIdle
    /\ HeuristicIdle
    /\ AtomicIdle
    /\ CategoryIdle

SpecBuild == InitBuild /\ [][NextSort]_vars

(***************************************************************************)
(* Inputs of the file processor: documents.                                *)
(***************************************************************************)
\* How many arguments a call and how many elements an array may have.
MaxItems == 2

DQ == "\""

\* Class lists as they stand in a file: out of order, in order, not
\* Tailwind-like, a single class.
Contents == {"p-4 flex", "flex p-4", "card header", "flex"}

\* Expressions without sub-expressions.
Leaves ==
    {StrT(DQ, c) : c \in Contents} \cup
    {StrT("'", "p-4 flex"), TmplT("p-4 flex"), TmplT("flex p-4"), IdentT("cond")}

\* The leaves lists are made of.
Items == {StrT(DQ, "p-4 flex"), StrT(DQ, "card header"), IdentT("cond")}

RECURSIVE ItemLists(_)
\* Every list of exactly n items.
ItemLists(n) ==
    IF n = 0 THEN {<<>>} ELSE {Append(l, x) : l \in ItemLists(n - 1), x \in Items}

Lists == UNION {ItemLists(n) : n \in 1..MaxItems}

\* Expressions one construct deep.
Simple ==
    {CallT(IdentT(f), <<x>>) : f \in {"cn", "foo"}, x \in Leaves} \cup
    {CallT(IdentT(f), l) : f \in {"cn", "foo"}, l \in Lists} \cup
    {CallT(MemberT("utils", "cn"), <<x>>) : x \in Items} \cup
    {ArrayT(l) : l \in Lists \cup {<<StrT("'", "p-4"), StrT("'", "flex")>>, <<StrT(DQ, "flex p-4")>>,
                                   <<StrT("'", "p-4"), StrT(DQ, "flex")>>,
                                   <<StrT(DQ, "p-4"), StrT(DQ, "flex"), StrT(DQ, "p-4")>>,
                                   <<StrT(DQ, "card header"), StrT(DQ, "site nav"), StrT(DQ, "p-4 flex")>>}} \cup
    {BinaryT(x, "+", y) : x \in {StrT(DQ, "p-4 "), StrT(DQ, "card ")}, y \in Items \cup {StrT(DQ, "flex")}} \cup
    {BinaryT(StrT(DQ, "p-4 flex m-2"), "+", StrT(DQ, "items-center bg-white")),
     BinaryT(StrT("'", "p-4 p-4 flex"), "+", StrT(DQ, "flex p-4")),
     BinaryT(StrT(DQ, "p-4 flex p-4 flex m-2"), "+", StrT(DQ, "m-2 flex p-4"))} \cup
    {ObjectT(<<PropT(k, x)>>) : k \in {"className", "other"}, x \in Items} \cup
    {ObjectT(<<StrKeyPropT(StrT(DQ, "p-4 flex"), x)>>) : x \in Items} \cup
    {TaggedT(IdentT("tw"), TmplT(c)) : c \in {"p-4 flex", "card header"}} \cup
    {CondT(IdentT("cond"), x, y) : x, y \in {StrT(DQ, "p-4 flex"), StrT(DQ, "flex p-4")}} \cup
    {DynTmplT("p-4 flex ", x) : x \in Items}

\* Constructs nested in constructs.
Nested ==
    LET inner == {CallT(IdentT("cn"), <<StrT(DQ, "p-4 flex")>>),
                  CallT(IdentT("foo"), <<StrT(DQ, "p-4 flex")>>),
                  ArrayT(<<StrT(DQ, "p-4 flex"), StrT(DQ, "card header")>>),
                  ArrayT(<<StrT(DQ, "card header"), StrT(DQ, "site nav"), StrT(DQ, "p-4 flex")>>),
                  BinaryT(StrT(DQ, "p-4 "), "+", StrT(DQ, "flex")),
                  ObjectT(<<PropT("className", StrT(DQ, "p-4 flex"))>>),
                  TaggedT(IdentT("tw"), TmplT("p-4 flex")),
                  CondT(IdentT("cond"), StrT(DQ, "p-4 flex"), StrT(DQ, "flex p-4"))}
    IN  {CallT(IdentT(f), <<e>>) : f \in {"cn", "foo"}, e \in inner} \cup
        {CallT(IdentT("cn"), <<StrT(DQ, "p-4 flex"), e>>) : e \in inner} \cup
        {ArrayT(<<e, StrT(DQ, "p-4 flex")>>) : e \in inner} \cup
        {BinaryT(e, "+", StrT(DQ, "p-4 flex")) : e \in inner} \cup
        {ObjectT(<<PropT("className", e)>>) : e \in inner}

\* JSX elements with a className or class attribute, or another one.
Elements ==
    {JSXElementT(<<JSXAttrT(n, StrT(q, c))>>, " />") :
        n \in {"className", "class", "title"}, q \in {DQ, "'"}, c \in Contents \cup {""}} \cup
    {JSXElementT(<<JSXAttrT("className", JSXContainerT(e))>>, " />") :
        e \in Leaves \cup {CallT(IdentT("cn"), <<StrT(DQ, "p-4 flex")>>),
                           BinaryT(StrT(DQ, "p-4 "), "+", StrT(DQ, "flex"))}} \cup
    {JSXElementT(<<JSXAttrT("title", StrT(DQ, c)), JSXAttrT("className", StrT(DQ, d))>>, " />") :
        c, d \in {"p-4 flex", "flex p-4"}} \cup
    {JSXElementT(<<JSXAttrT("className", StrT(DQ, c)), JSXAttrT("id", StrT(DQ, d))>>, " />") :
        c \in {"p-4  flex", "p-4 flex"}, d \in {"p-4 flex", "main"}}

\* Statements.
Statements == {ConstT("a", e) : e \in Leaves \cup Simple \cup Nested \cup Elements}

\* Files of two statements, a comment between them or not.
Sequences2 ==
    LET firsts == {ConstT("a", e) :
                     e \in {StrT(DQ, "p-4 flex"), CallT(IdentT("foo"), <<StrT(DQ, "p-4 flex")>>),
                            CallT(IdentT("cn"), <<StrT(DQ, "p-4  flex")>>),
                            JSXElementT(<<JSXAttrT("className", StrT(DQ, "p-4 flex"))>>, " />"),
                            JSXElementT(<<JSXAttrT("className", StrT(DQ, "p-4  flex"))>>, " />")}}
        seconds == {ConstT("b", e) :
                     e \in {StrT(DQ, "p-4 flex"), CallT(IdentT("cn"), <<StrT(DQ, "p-4 flex")>>),
                            JSXElementT(<<JSXAttrT("className", StrT(DQ, "p-4 flex"))>>, " />"),
                            JSXElementT(<<JSXAttrT("className", StrT(DQ, "p-4  flex"))>>, " />"),
                            JSXElementT(<<JSXAttrT("class", StrT("'", "flex p-4"))>>, " />")}}
    IN  {ProgramT(f, b, g) :
            f \in firsts, b \in {"", "// \"p-4 flex\"\n", "// \"p-4  flex\"\n"}, g \in seconds}

\* Files that hold a lone JSX element: complete, an opening tag, or cut
\* before the end of the tag; with or without whitespace around.
Fragments ==
    {FragmentT(pad[1], JSXElementT(<<a>>, closer), pad[2]) :
        pad \in {<<"", "">>, <<"  ", "\n">>},
        closer \in {" />", ">", ""},
        a \in {JSXAttrT("className", StrT(DQ, c)) :
                  c \in Contents \cup {"p-4 m-2 [&>li]:flex", "flex [&>li]:p-4 m-2"}}
              \cup {JSXAttrT("className", JSXContainerT(e)) :
                      e \in {StrT(DQ, "p-4 flex"), CallT(IdentT("cn"), <<StrT(DQ, "p-4 flex")>>)}}}

Documents == Statements \cup Sequences2 \cup Fragments

FilePaths == {"App.tsx"}

\* dry_run, write, check_formatted as the command line sets them.
OptionSets ==
    { ProcessOptions(FALSE, FALSE, FALSE), ProcessOptions(FALSE, TRUE, FALSE),
      ProcessOptions(TRUE, FALSE, FALSE), ProcessOptions(TRUE, TRUE, FALSE),
      ProcessOptions(FALSE, FALSE, TRUE) }

FileConfigs == {Config("official", <<>>, {}), Config("custom", <<"spacing", "layout">>, {"tw"})}

(***************************************************************************)
(* Processing a file: FileProcessor::process_content.                      *)
(***************************************************************************)
InitFile ==
    /\ config \in {c \in FileConfigs : validate_config(c)}
    /\ sorter = new_with_config(config).sorter
    /\ parser = new_with_config(config).parser
    /\ category_cache = <<>>
    /\ class_string = ""
    /\ sorted_once = ""
    /\ sorted_twice = ""
    /\ sort_pc = "idle"
    /\ doc \in Documents
    /\ file_path \in FilePaths
    /\ content = Render(doc)
    /\ disk = content
    /\ options \in OptionSets
    /\ writes = 0
    /\ extracted = <<>>
    /\ matches = <<>>
    /\ result = ""
    /\ changes_made = FALSE
    /\ ret = NoRet
    /\ file_pc = "input"
    /\ BatchIdle
    /\ HeuristicIdle
    /\ AtomicIdle
    /\ CategoryIdle

\* One call of process_content on the file.
ProcessContent ==
    /\ file_pc = "input"
    /\ \E out \in {process_content(processor, category_cache, doc, content, file_path, options)} :
           /\ matches' = out.matches
           /\ extracted' = out.extracted
           /\ result' = out.result
           /\ changes_made' = out.changes_made
           /\ category_cache' = out.cache
           /\ ret' = [ok |-> out.ok, value |-> out.value, err |-> out.err.kind]
           /\ disk' = IF out.written THEN out.result ELSE disk
           /\ writes' = IF out.written THEN writes + 1 ELSE writes
    /\ file_pc' = "processed"
    /\ UNCHANGED <<atomicVars, categoryVars, heuristicVars, config, sorter, parser, class_string, sorted_once, sorted_twice, sort_pc,
                   doc, file_path, content, options, batchVars>>

NextFile == ProcessContent

SpecFile == InitFile /\ [][NextFile]_vars

(***************************************************************************)
(* Processing a file twice: process_content on the text the first call     *)
(* returned.  The second call parses that text, so it needs the syntax of  *)
(* the rewritten text: Rewordings gives the trees that differ from the     *)
(* first document in the class lists only, and the one whose text is the   *)
(* returned string is the document of the second call.                     *)
(***************************************************************************)
RECURSIVE Rewordings(_, _)
RECURSIVE PieceChoices(_, _)
PieceChoices(s, pieces) ==
    IF pieces = <<>> THEN {<<>>}
    ELSE LET heads == IF Head(pieces).isNode
                      THEN {Sub(n) : n \in Rewordings(s, Head(pieces).n)}
                      ELSE {Head(pieces)}
         IN  {<<h>> \o r : h \in heads, r \in PieceChoices(s, Tail(pieces))}

Rewordings(s, t) ==
    LET inner == {[t EXCEPT !.pieces = p] : p \in PieceChoices(s, t.pieces)}
        text(n) == Slice(n.pieces[1].s, 1, Len(n.pieces[1].s) - 1)
        quote(n) == At(n.pieces[1].s, 1)
        nodes == [i \in {j \in 1..Len(t.pieces) : t.pieces[j].isNode} |-> t.pieces[i].n]
        strings == \A i \in DOMAIN nodes : nodes[i].kind = "StringLiteral"
        first == nodes[SetMin(DOMAIN nodes)]
        words == SplitWhitespace(sort_classes(s, <<>>,
                     Join([i \in 1..Len(t.pieces) |->
                              IF t.pieces[i].isNode THEN text(t.pieces[i].n) ELSE ""], " ")))
    IN  CASE t.kind = "StringLiteral" ->
                {t, StrT(quote(t), sort_classes(s, <<>>, text(t)))}
          [] t.kind = "TemplateLiteral" /\ t.info.quasis = 1 ->
                {t, TmplT(sort_classes(s, <<>>, t.info.cooked))}
          [] t.kind = "ArrayExpression" /\ DOMAIN nodes # {} /\ strings ->
                inner \cup {ArrayT([i \in 1..Len(words) |-> StrT(quote(first), words[i])])}
          [] t.kind = "BinaryExpression" /\ strings ->
                inner \cup
                {BinaryT(StrT(quote(first), Join(SubSeq(words, 1, k), " ")), t.info.operator,
                         StrT(quote(first), Join(SubSeq(words, k + 1, Len(words)), " ")))
                    : k \in 0..Len(words)}
          [] OTHER -> inner

\* The syntax of the text a call on document d returned.
Reparsed(s, d, text) == {t \in Rewordings(s, d) : Render(t) = text}

InitTwice == InitFile /\ (options.dry_run \/ ~options.write) /\ ~options.check_formatted

\* process_content(process_content(x)): the call on the returned text.
ProcessAgain ==
    /\ file_pc = "processed"
    /\ ret.ok
    /\ \E again \in Reparsed(sorter, doc, ret.value) :
       \E out \in {process_content(processor, category_cache, again, ret.value, file_path, options)} :
           /\ doc' = again
           /\ content' = ret.value
           /\ matches' = out.matches
           /\ extracted' = out.extracted
           /\ result' = out.result
           /\ changes_made' = out.changes_made
           /\ category_cache' = out.cache
           /\ ret' = [ok |-> out.ok, value |-> out.value, err |-> out.err.kind]
           /\ disk' = IF out.written THEN out.result ELSE disk
           /\ writes' = IF out.written THEN writes + 1 ELSE writes
    /\ file_pc' = "reprocessed"
    /\ UNCHANGED <<atomicVars, categoryVars, heuristicVars, config, sorter, parser, class_string, sorted_once, sorted_twice, sort_pc,
                   file_path, options, batchVars>>

NextTwice == ProcessContent \/ ProcessAgain

SpecTwice == InitTwice /\ [][NextTwice]_vars

(***************************************************************************)
(* Processing a batch of files: FileProcessingPipeline::process_files.     *)
(***************************************************************************)
\* How many files a batch may hold.
MaxFiles == 2

\* How many threads the global Rayon pool has.
NumCores == 2

\* What a discovered path may hold: a file to reorder, a canonical one, two
\* statements, a fragment that does not parse, and a path that cannot be
\* read.
BatchEntries ==
    {FileEntry(d, Render(d), "ok") :
        d \in {ConstT("a", CallT(IdentT("cn"), <<StrT(DQ, "p-4 flex")>>)),
               ConstT("a", CallT(IdentT("cn"), <<StrT(DQ, "flex p-4")>>)),
               ProgramT(ConstT("a", CallT(IdentT("cn"), <<StrT(DQ, "p-4  flex")>>)), "",
                        ConstT("b", StrT(DQ, "p-4 flex"))),
               FragmentT("", JSXElementT(<<JSXAttrT("className",
                                                     StrT(DQ, "p-4 m-2 [&>li]:flex"))>>, ""), "")}}
    \cup {FileEntry(NoDoc, "", "NotFound")}

\* The paths of a batch: sorted and without duplicates, as discover_files
\* returns them.
BatchPaths == <<"a.tsx", "b.tsx", "c.tsx", "d.tsx">>

\* dry_run, write, check_formatted as the modes check, write and verify of
\* the command line set them.
BatchOptionSets ==
    { ProcessOptions(TRUE, FALSE, FALSE), ProcessOptions(FALSE, TRUE, FALSE),
      ProcessOptions(FALSE, FALSE, TRUE) }

\* Parallel runs on NumCores threads; ParallelWithThreads(1) on a pool of one.
ProcessingModes == {Sequential, Parallel, ParallelWithThreads(1)}

NoRead == [ok |-> FALSE, content |-> "", doc |-> NoDoc, error_msg |-> ""]

NoResult == error("", "")

\* The ContentProcessor a task runs on: the parser with its allocator and
\* the sorter with its category cache.  id tells the instances apart: 0 is
\* the pipeline's own, i the one the closure of file i constructs.  A task
\* is on Some(id), or on None before it starts.
\* self.content_processor
content_processor == [id |-> 0, processor |-> processor, cache |-> category_cache]

\* The closure, were it to borrow the pipeline's processor.
thread_processor_Borrowed(i) == content_processor

\* let thread_processor = ContentProcessor::new_with_config(config)
thread_processor(i) == [id |-> i, processor |-> new_with_config(config), cache |-> <<>>]

InitBatch ==
    /\ config \in {c \in FileConfigs : validate_config(c)}
    /\ sorter = new_with_config(config).sorter
    /\ parser = new_with_config(config).parser
    /\ category_cache = <<>>
    /\ class_string = ""
    /\ sorted_once = ""
    /\ sorted_twice = ""
    /\ sort_pc = "idle"
    /\ doc = NoDoc
    /\ file_path = ""
    /\ content = ""
    /\ options \in BatchOptionSets
    /\ disk = ""
    /\ writes = 0
    /\ extracted = <<>>
    /\ matches = <<>>
    /\ result = ""
    /\ changes_made = FALSE
    /\ ret = NoRet
    /\ file_pc = "idle"
    /\ \E n \in 1..MaxFiles :
           /\ files = SubSeq(BatchPaths, 1, n)
           /\ fs \in [Range(files) -> BatchEntries]
           /\ tasks = [i \in 1..n |-> [pc |-> "pending", read |-> NoRead,
                                       result |-> NoResult, runs |-> 0, order |-> 0,
                                       on |-> None]]
    /\ fs_discovered = fs
    /\ processing_mode \in ProcessingModes
    /\ results = new_results
    /\ batch_pc = "running"
    /\ HeuristicIdle
    /\ AtomicIdle
    /\ CategoryIdle

\* The files whose processing has ended.
Finished == {i \in DOMAIN tasks : tasks[i].pc = "done"}

\* One turn of the loop of process_files_sequential: process_single_file on
\* the pipeline's own processor, then add_result.
SequentialFile ==
    /\ batch_pc = "running"
    /\ processing_mode.kind = "Sequential"
    /\ results.total_files < Len(files)
    /\ LET i == results.total_files + 1
       IN  \E out \in {process_single_file_with_processor(processor, category_cache, fs,
                                                          files[i], options)} :
               /\ results' = add_result(results, out.result)
               /\ fs' = write_back(fs, files[i], out)
               /\ category_cache' = out.cache
               /\ tasks' = [tasks EXCEPT ![i] = [pc |-> "done", read |-> NoRead,
                                                 result |-> out.result, runs |-> @.runs + 1,
                                                 order |-> Cardinality(Finished) + 1,
                                                 on |-> Some(content_processor.id)]]
    /\ UNCHANGED <<atomicVars, categoryVars, heuristicVars, config, sorter, class_string, sorted_once, sorted_twice, sort_pc, fileVars,
                   files, fs_discovered, processing_mode, batch_pc>>

\* process_files_sequential returns Ok(results) after the last file.
SequentialReturn ==
    /\ batch_pc = "running"
    /\ processing_mode.kind = "Sequential"
    /\ results.total_files = Len(files)
    /\ batch_pc' = "returned"
    /\ UNCHANGED <<atomicVars, categoryVars, heuristicVars, sortVars, fileVars, files, fs_discovered, fs, processing_mode, tasks, results>>

\* The threads of the pool the parallel iterator runs on.
PoolThreads ==
    IF processing_mode.kind = "Parallel" THEN NumCores ELSE processing_mode.num_threads

InFlight == {i \in DOMAIN tasks : tasks[i].pc = "read"}

\* A thread of the pool takes file i and reads it: the head of the closure
\* given to par_iter().map in process_files_parallel and
\* process_files_parallel_with_threads.
TaskRead(i) ==
    /\ batch_pc = "running"
    /\ processing_mode.kind \in {"Parallel", "ParallelWithThreads"}
    /\ tasks[i].pc = "pending"
    /\ Cardinality(InFlight) < PoolThreads
    /\ tasks' = [tasks EXCEPT ![i] = [@ EXCEPT !.pc = "read",
                                               !.read = read_to_string(fs, files[i]),
                                               !.on = Some(thread_processor(i).id)]]
    /\ UNCHANGED <<atomicVars, categoryVars, heuristicVars, sortVars, fileVars, files, fs_discovered, fs, processing_mode, results,
                   batch_pc>>

\* The thread goes on with what it read, on a ContentProcessor of its own.
TaskProcess(i) ==
    /\ batch_pc = "running"
    /\ tasks[i].pc = "read"
    /\ LET on == thread_processor(i)
           read == tasks[i].read
       IN  \E out \in {IF read.ok
                       THEN process_read_content(on.processor, on.cache, read, files[i], options)
                       ELSE [result |-> error(files[i], read.error_msg), written |-> FALSE,
                             text |-> "", cache |-> <<>>]} :
               /\ fs' = write_back(fs, files[i], out)
               /\ tasks' = [tasks EXCEPT ![i] = [pc |-> "done", read |-> NoRead,
                                                 result |-> out.result, runs |-> @.runs + 1,
                                                 order |-> Cardinality(Finished) + 1,
                                                 on |-> @.on]]
    /\ UNCHANGED <<atomicVars, categoryVars, heuristicVars, sortVars, fileVars, files, fs_discovered, processing_mode, results, batch_pc>>

RECURSIVE add_results_DropsErrors(_, _, _)
\* add_results, were the results of the files that failed left out.
add_results_DropsErrors(self, file_results, i) ==
    IF i > Len(file_results) THEN self
    ELSE add_results_DropsErrors(IF file_results[i].success
                                 THEN add_result(self, file_results[i]) ELSE self,
                                 file_results, i + 1)

RECURSIVE add_results(_, _, _)
\* for result in file_results { results.add_result(result) }
add_results(self, file_results, i) ==
    IF i > Len(file_results) THEN self
    ELSE add_results(add_result(self, file_results[i]), file_results, i + 1)

\* collect() has every result, in the order of the files; the results are
\* added to the batch and returned.
Collect ==
    /\ batch_pc = "running"
    /\ processing_mode.kind \in {"Parallel", "ParallelWithThreads"}
    /\ Finished = DOMAIN tasks
    /\ results' = add_results(new_results, [i \in DOMAIN tasks |-> tasks[i].result], 1)
    /\ batch_pc' = "returned"
    /\ UNCHANGED <<atomicVars, categoryVars, heuristicVars, sortVars, fileVars, files, fs_discovered, fs, processing_mode, tasks>>

NextBatch ==
    \/ SequentialFile
    \/ SequentialReturn
    \/ \E i \in DOMAIN tasks : TaskRead(i)
    \/ \E i \in DOMAIN tasks : TaskProcess(i)
    \/ Collect

SpecBatch == InitBatch /\ [][NextBatch]_vars

(***************************************************************************)
(* A BatchProcessingResults that is given results one by one: add_result   *)
(* with any FileProcessingResult a caller can build (the fields are pub).  *)
(***************************************************************************)
MaxResults == 4

AnyResults ==
    { success("a.tsx", TRUE, "p-4 flex", "flex p-4"),
      success("a.tsx", FALSE, "flex p-4", "flex p-4"),
      error("a.tsx", "Failed to read file: NotFound"),
      [error("a.tsx", "Failed to write file") EXCEPT !.changes_made = TRUE] }

InitResults ==
    /\ config = Config("official", <<>>, {})
    /\ sorter = new_with_config(config).sorter
    /\ category_cache = <<>>
    /\ class_string = ""
    /\ sorted_once = ""
    /\ sorted_twice = ""
    /\ sort_pc = "idle"
    /\ FileIdle
    /\ HeuristicIdle
    /\ AtomicIdle
    /\ CategoryIdle
    /\ files = <<>>
    /\ fs_discovered = <<>>
    /\ fs = <<>>
    /\ processing_mode = Sequential
    /\ tasks = <<>>
    /\ results = new_results
    /\ batch_pc = "adding"

\* results.add_result(result)
AddResult ==
    /\ batch_pc = "adding"
    /\ results.total_files < MaxResults
    /\ \E r \in AnyResults : results' = add_result(results, r)
    /\ UNCHANGED <<atomicVars, categoryVars, heuristicVars, sortVars, fileVars, files, fs_discovered, fs, processing_mode, tasks,
                   batch_pc>>

NextResults == AddResult

SpecResults == InitResults /\ [][NextResults]_vars

(***************************************************************************)
(* AtomicWriter: src/src/atomic.rs.  dir is what the paths target_path and *)
(* temp_path hold (None: no such file).  The calls of the file system that *)
(* can fail take their outcome as an argument; remove_file of a file that  *)
(* exists removes it.                                                      *)
(***************************************************************************)
\* fs::remove_file(path)
remove_file(d, path) == [d EXCEPT ![path] = None]

\* impl Drop for AtomicWriter
drop(self, d) == IF self.temp_file THEN remove_file(d, "temp") ELSE d

\* AtomicWriter::new: File::create(&temp_path) succeeds or not.
new_writer(d, created) ==
    IF created
    THEN [ok |-> TRUE, dir |-> [d EXCEPT !.temp = Some("")],
          self |-> [temp_file |-> TRUE, given |-> "", calls |-> 0, before |-> d.target]]
    ELSE [ok |-> FALSE, dir |-> d, self |-> NoWriter]

\* AtomicWriter::write: write_all and flush succeed or not.
write(self, d, text, flushed) ==
    IF ~self.temp_file THEN [ok |-> FALSE, dir |-> d, self |-> self]
    ELSE IF flushed
    THEN [ok |-> TRUE, dir |-> [d EXCEPT !.temp = Some(@[1] \o text)],
          self |-> [self EXCEPT !.given = @ \o text, !.calls = @ + 1]]
    ELSE [ok |-> FALSE, dir |-> d, self |-> [self EXCEPT !.calls = @ + 1]]

\* AtomicWriter::commit, with the drop of self when it returns: sync_all
\* and rename succeed or not.
commit(self, d, synced, renamed) ==
    LET taken == [self EXCEPT !.temp_file = FALSE]
    IN  IF self.temp_file /\ ~synced
        THEN [ok |-> FALSE, dir |-> drop(taken, d), self |-> taken]
        ELSE IF renamed
        THEN [ok |-> TRUE, dir |-> drop(taken, [target |-> d.temp, temp |-> None]), self |-> taken]
        ELSE [ok |-> FALSE, dir |-> drop(taken, remove_file(d, "temp")), self |-> taken]

\* How many write calls a writer is given, and what they hold.
MaxWrites == 2

Chunks == {"const a", " = 1;", "\n"}

TargetsBefore == {None, Some(""), Some("const a = 0;\n")}

InitAtomic ==
    /\ config = Config("official", <<>>, {})
    /\ sorter = new_with_config(config).sorter
    /\ category_cache = <<>>
    /\ class_string = ""
    /\ sorted_once = ""
    /\ sorted_twice = ""
    /\ sort_pc = "idle"
    /\ FileIdle
    /\ BatchIdle
    /\ HeuristicIdle
    /\ \E before \in TargetsBefore : dir = [target |-> before, temp |-> None]
    /\ writer = NoWriter
    /\ atomic_pc = "start"
    /\ atomic_ret = "none"
    /\ CategoryIdle

\* let mut writer = AtomicWriter::new(path)
AtomicNew ==
    /\ atomic_pc = "start"
    /\ \E created \in BOOLEAN :
       \E out \in {new_writer(dir, created)} :
           /\ dir' = out.dir
           /\ writer' = out.self
           /\ atomic_pc' = IF out.ok THEN "open" ELSE "failed"
           /\ atomic_ret' = IF out.ok THEN "ok" ELSE "err"
    /\ UNCHANGED <<sortVars, fileVars, batchVars, heuristicVars, categoryVars>>

\* writer.write(content); a caller that gets an error gives the writer up.
AtomicWrite ==
    /\ atomic_pc = "open"
    /\ writer.calls < MaxWrites
    /\ \E text \in Chunks, flushed \in BOOLEAN :
       \E out \in {write(writer, dir, text, flushed)} :
           /\ dir' = out.dir
           /\ writer' = out.self
           /\ atomic_pc' = IF out.ok THEN "open" ELSE "write_failed"
           /\ atomic_ret' = IF out.ok THEN "ok" ELSE "err"
    /\ UNCHANGED <<sortVars, fileVars, batchVars, heuristicVars, categoryVars>>

\* writer.commit()
AtomicCommit ==
    /\ atomic_pc = "open"
    /\ \E synced, renamed \in BOOLEAN :
       \E out \in {commit(writer, dir, synced, renamed)} :
           /\ dir' = out.dir
           /\ writer' = out.self
           /\ atomic_ret' = IF out.ok THEN "ok" ELSE "err"
    /\ atomic_pc' = "committed"
    /\ UNCHANGED <<sortVars, fileVars, batchVars, heuristicVars, categoryVars>>

\* The writer goes out of scope without commit.
AtomicDrop ==
    /\ atomic_pc \in {"open", "write_failed"}
    /\ dir' = drop(writer, dir)
    /\ atomic_pc' = "dropped"
    /\ UNCHANGED <<sortVars, fileVars, batchVars, heuristicVars, categoryVars, writer, atomic_ret>>

NextAtomic == AtomicNew \/ AtomicWrite \/ AtomicCommit \/ AtomicDrop

SpecAtomic == InitAtomic /\ [][NextAtomic]_vars

(***************************************************************************)
(* Direct use of the category lookup: get_class_category on a class, then  *)
(* on the same sorter on a form of that class: with a marker, with both,   *)
(* with variants in front, with an arbitrary value behind.                 *)
(***************************************************************************)
Prefixes == {CLASS_CATEGORIES[i][1] : i \in 1..Len(CLASS_CATEGORIES)}

\* Every prefix of the table, alone and with a value; classes no prefix
\* matches, and classes that start like a prefix of the fast path.
BaseClasses ==
    Prefixes \cup {p \o "4" : p \in {q \in Prefixes : EndsWith(q, "-")}}
    \cup {"", "p", "m", "w", "h", "card", "pq-4", "pxx", "my", "hi-fi", "wide-4", "peer", "marker"}

ArbitraryValues == {"[23px]", "[color:red]"}

Forms(b) ==
    {"!" \o b, "-" \o b, "!-" \o b, "-!" \o b, "hover:" \o b, "md:hover:" \o b, "md:!" \o b}
    \cup (IF EndsWith(b, "-") THEN {b \o v : v \in ArbitraryValues} ELSE {})

InitCategory ==
    /\ config = Config("official", <<>>, {})
    /\ sorter = new_with_config(config).sorter
    /\ category_cache = <<>>
    /\ class_string = ""
    /\ sorted_once = ""
    /\ sorted_twice = ""
    /\ sort_pc = "idle"
    /\ FileIdle
    /\ BatchIdle
    /\ HeuristicIdle
    /\ AtomicIdle
    /\ lookups = <<>>
    /\ category_pc = "base"

\* One call of get_class_category: what it returns, what it gave
\* find_category_optimized, and the entry it leaves in the cache.
Lookup(class) ==
    /\ \E category \in {get_class_category(category_cache, class)} :
           /\ lookups' = Append(lookups, [class |-> class,
                                          base_class |-> stripped_base_class(class),
                                          category |-> category])
           /\ category_cache' = [c \in (DOMAIN category_cache) \cup {class} |->
                                    IF c = class THEN category ELSE category_cache[c]]
    /\ UNCHANGED <<atomicVars, heuristicVars, fileVars, batchVars, config, sorter, class_string,
                   sorted_once, sorted_twice, sort_pc>>

\* sorter.get_class_category(b)
GetBaseCategory ==
    /\ category_pc = "base"
    /\ \E b \in BaseClasses : Lookup(b)
    /\ category_pc' = "form"

\* sorter.get_class_category(form of b)
GetFormCategory ==
    /\ category_pc = "form"
    /\ \E f \in Forms(lookups[1].class) : Lookup(f)
    /\ category_pc' = "done"

NextCategory == GetBaseCategory \/ GetFormCategory

SpecCategory == InitCategory /\ [][NextCategory]_vars

(***************************************************************************)
(* Direct use of the content heuristic: looks_like_tailwind_classes.       *)
(***************************************************************************)
\* How many tokens a string given to the heuristic may have.
MaxWords == 5

\* Tokens: one that matches a pattern, one that does not, one that matches
\* after its modifiers are stripped.
HeuristicTokens == {"p-4", "card", "-md:flex!"}

RECURSIVE WordStrings(_)
\* Every string of exactly n tokens, single spaces between them.
WordStrings(n) ==
    IF n = 1 THEN HeuristicTokens
    ELSE {s \o " " \o t : s \in WordStrings(n - 1), t \in HeuristicTokens}

\* Strings an exclusion pattern matches, with tokens that match a pattern.
ExcludedStrings ==
    {"calc(p-4 m-2)", "var(p-4)", "use client", "use strict", "http://p-4 m-2", "./p-4 m-2",
     "../p-4", "/p-4 m-2", "p-4 m-2 a://b", "p-4 user@m-2", "p-4 m-2=1", " /p-4 m-2"}

\* The contents of string literals the heuristic is asked about: tokens
\* separated by spaces, the first separator a tab in some, whitespace around
\* in some, and strings to exclude.
LiteralContents ==
    LET spaced == UNION {WordStrings(n) : n \in 1..MaxWords}
        tabbed == {ReplaceRange(s, Find(s, " "), Find(s, " ") + 1, "\t") :
                      s \in {w \in spaced : Contains(w, " ")}}
    IN  spaced \cup tabbed \cup {" " \o s \o "\n" : s \in WordStrings(1) \cup WordStrings(2)}
        \cup ExcludedStrings \cup {"", " "}

InitHeuristic ==
    /\ config \in {c \in FileConfigs : validate_config(c)}
    /\ sorter = new_with_config(config).sorter
    /\ category_cache = <<>>
    /\ class_string = ""
    /\ sorted_once = ""
    /\ sorted_twice = ""
    /\ sort_pc = "idle"
    /\ FileIdle
    /\ BatchIdle
    /\ literal_content \in LiteralContents
    /\ looks_like = FALSE
    /\ heuristic_pc = "input"
    /\ AtomicIdle
    /\ CategoryIdle

\* One call of looks_like_tailwind_classes.
LooksLike ==
    /\ heuristic_pc = "input"
    /\ looks_like' = looks_like_tailwind_classes(literal_content)
    /\ heuristic_pc' = "decided"
    /\ UNCHANGED <<atomicVars, categoryVars, sortVars, fileVars, batchVars, literal_content>>

NextHeuristic == LooksLike

SpecHeuristic == InitHeuristic /\ [][NextHeuristic]_vars

(***************************************************************************)
(* Properties of the sorter.                                               *)
(***************************************************************************)
Tokens(s) == SplitWhitespace(s)

\* The sort key of a token: <<category rank of the base, base, number of
\* variants, variant chain>>, compared lexicographically.
KeyRank(t) == get_category_order(sorter, compute_class_category(split_variants(t).base))

ChainLeq(u, v) ==
    LET d == {i \in 1..Len(u) : u[i] # v[i]}
    IN  d = {} \/ StrCmp(u[SetMin(d)], v[SetMin(d)]) < 0

KeyLeq(a, b) ==
    LET ka == split_variants(a)
        kb == split_variants(b)
    IN  \/ KeyRank(a) < KeyRank(b)
        \/ /\ KeyRank(a) = KeyRank(b)
           /\ \/ StrCmp(ka.base, kb.base) < 0
              \/ /\ ka.base = kb.base
                 /\ \/ Len(ka.variants) < Len(kb.variants)
                    \/ /\ Len(ka.variants) = Len(kb.variants)
                       /\ ChainLeq(ka.variants, kb.variants)

IsUnknownToken(t) == compute_class_category(split_variants(t).base) = "unknown"

\* C2: sorting is idempotent: sorting the result of sort_classes again
\* returns it unchanged, for every class list and sorter configuration.
C2_Idempotent == sort_pc = "resorted" => sorted_twice = sorted_once

\* A class list of several tokens that the first sort reordered has been
\* sorted twice.
C2_Witness ==
    /\ sort_pc = "resorted"
    /\ Len(Tokens(class_string)) >= 2
    /\ Tokens(sorted_once) # Tokens(class_string)

\* C3: an input of two or more whitespace-separated tokens, whatever the
\* whitespace, comes back as exactly its distinct tokens, each once, joined
\* by single spaces.
C3_DistinctTokensSingleSpaced ==
    (sort_pc # "input" /\ Len(Tokens(class_string)) >= 2) =>
        LET out == Tokens(sorted_once)
        IN  /\ Range(out) = Range(Tokens(class_string))
            /\ Len(out) = Cardinality(Range(out))
            /\ sorted_once = Join(out, " ")

\* C4: in the output every pair of adjacent tokens is ordered by the key
\* (category rank of the base, base, number of variants, variant chain).
C4_AdjacentOrdered ==
    sort_pc # "input" =>
        LET out == Tokens(sorted_once)
        IN  \A i \in 1..(Len(out) - 1) : KeyLeq(out[i], out[i + 1])

\* C5: with the built-in order or any custom order that validation accepts,
\* every unknown token comes after every token of a recognized category, and
\* the unknown tokens are in alphabetical order (of their bases) among
\* themselves.
C5_UnknownLast ==
    sort_pc # "input" =>
        LET out == Tokens(sorted_once)
        IN  \A i, j \in 1..Len(out) :
                (i < j /\ IsUnknownToken(out[i])) =>
                    /\ IsUnknownToken(out[j])
                    /\ StrCmp(split_variants(out[i]).base, split_variants(out[j]).base) <= 0

\* C6 as claimed: an empty, whitespace-only or single-token argument comes
\* back byte for byte unchanged, surrounding whitespace included.
C6_ReturnedUnchanged ==
    (sort_pc # "input" /\ Len(Tokens(class_string)) <= 1) => sorted_once = class_string

\* C6 as amended: an empty or whitespace-only argument comes back unchanged;
\* a single-token argument comes back as that token, without the whitespace
\* around it.
C6_UnchangedOrTrimmed ==
    sort_pc # "input" =>
        /\ Len(Tokens(class_string)) = 0 => sorted_once = class_string
        /\ Len(Tokens(class_string)) = 1 => sorted_once = Tokens(class_string)[1]

\* A single token with whitespace around it has been sorted.
C6_Witness ==
    /\ sort_pc = "sorted"
    /\ Len(Tokens(class_string)) = 1
    /\ class_string # Tokens(class_string)[1]

(***************************************************************************)
(* Properties of extraction and rewriting.                                 *)
(***************************************************************************)
Processed == file_pc = "processed" /\ ret.ok

\* The call returns the rewritten text: preview mode.
Preview == ~options.write /\ ~options.check_formatted

RECURSIVE FindFrom(_, _, _)
\* The first position at or after pos where pat occurs in s, -1 if none.
FindFrom(s, pat, pos) ==
    IF pos + Len(pat) > Len(s) THEN -1
    ELSE IF Slice(s, pos, pos + Len(pat)) = pat THEN pos
    ELSE FindFrom(s, pat, pos + 1)

Clip(n, len) == IF n > len THEN len ELSE n

\* The spans of the matches, by ascending start.
SpansAscending(ms) ==
    LET d == sort_by_start_desc(ms)
    IN  [i \in 1..Len(d) |-> <<d[Len(d) + 1 - i].start, d[Len(d) + 1 - i].end>>]

\* The pieces of src outside every span, in order: before the first span,
\* between consecutive spans, after the last.
Gaps(src, spans) ==
    [i \in 1..(Len(spans) + 1) |->
        LET from == IF i = 1 THEN 0 ELSE Clip(spans[i - 1][2], Len(src))
            to == IF i = Len(spans) + 1 THEN Len(src) ELSE Clip(spans[i][1], Len(src))
        IN  IF from >= to THEN "" ELSE Slice(src, from, to)]

RECURSIVE Embeds(_, _, _, _)
\* out, from pos on, is gaps[i], some text, gaps[i+1], some text, ..., and
\* ends with the last gap.
Embeds(out, pos, gaps, i) ==
    IF i = Len(gaps)
    THEN Len(out) - Len(gaps[i]) >= pos /\ EndsWith(out, gaps[i])
    ELSE LET at == FindFrom(out, gaps[i], pos)
         IN  at # -1 /\ Embeds(out, at + Len(gaps[i]), gaps, i + 1)

\* out is src with only the text inside the spans replaced.
OnlySpansDiffer(src, out, spans) ==
    LET gaps == Gaps(src, spans)
    IN  IF Len(gaps) = 1 THEN out = src
        ELSE StartsWith(out, gaps[1]) /\ Embeds(out, Len(gaps[1]), gaps, 2)

\* C1: the text process_content returns in preview mode differs from the
\* source only inside the spans of the emitted matches: every byte outside
\* all the spans is in the output, unchanged and in the same order, also
\* when the same quoted class string occurs several times in the file.
C1_OnlyMatchSpansChange ==
    (Processed /\ Preview) => OnlySpansDiffer(content, ret.value, SpansAscending(matches))

Canonical(m) == sort_classes(sorter, <<>>, m.original) = m.original

\* C7: when the class list of every extracted match is already canonical,
\* no change is reported, nothing is written, and the text (returned in
\* preview mode) is the original text byte for byte.
C7_CanonicalNoChange ==
    (Processed /\ \A i \in 1..Len(matches) : Canonical(matches[i])) =>
        /\ ~changes_made
        /\ result = content
        /\ disk = content /\ writes = 0
        /\ Preview => ret.value = content

\* A file with matches, all of them canonical, has been processed.
C7_Witness ==
    /\ Processed
    /\ Len(matches) >= 1
    /\ \A i \in 1..Len(matches) : Canonical(matches[i])
    /\ \E i \in 1..Len(matches) : Len(Tokens(matches[i].original)) >= 2

\* C8: changes_made, which decides whether the file is written, is true if
\* and only if the rewritten text differs from the original text; a match
\* whose replacement was skipped does not set it.
C8_ChangedIffTextDiffers == Processed => (changes_made <=> result # content)

\* The string-literal values of the className / class attributes of the
\* JSX in the file.
RECURSIVE ClassAttributeLiterals(_)
ClassAttributeLiterals(node) ==
    (IF /\ node.kind = "JSXAttribute" /\ is_class_attribute(node.info.name)
        /\ Len(node.kids) = 1 /\ node.kids[1].kind = "StringLiteral"
     THEN {node.kids[1]} ELSE {})
    \cup UNION {ClassAttributeLiterals(node.kids[i]) : i \in 1..Len(node.kids)}

\* The AST the extractor walked.
ParsedProgram ==
    OxcParse(doc, wrap_jsx_if_needed(content).wrapped, detect_source_type(file_path)).program

\* C9: every JSX attribute className or class whose value is a non-empty
\* string literal yields exactly one JSXAttribute match, whether or not its
\* content passes looks_like_tailwind_classes.
C9_ClassAttributeAlwaysMatched ==
    Processed =>
        \A lit \in ClassAttributeLiterals(ParsedProgram) :
            lit.end - lit.start > 2 =>
                Cardinality({i \in 1..Len(extracted) :
                                /\ extracted[i].pattern_type = JSXAttribute
                                /\ extracted[i].start = lit.start
                                /\ extracted[i].end = lit.end}) = 1

ParsedText == wrap_jsx_if_needed(content).wrapped

\* C11: every match parse_file returns has start < end <= len(source), and
\* source[start..end) is exactly the literal the extractor matched, with its
\* delimiters; also when the file was a bare JSX fragment that was wrapped,
\* trimmed or closed before parsing.
C11_SpansInCallerText ==
    Processed =>
        \A i \in 1..Len(matches) :
            /\ matches[i].start < matches[i].end
            /\ matches[i].end <= Len(content)
            /\ Slice(content, matches[i].start, matches[i].end)
                  = Slice(ParsedText, extracted[i].start, extracted[i].end)

\* The combinator set the extractor was built with.
SupportedFunctions == DEFAULT_SUPPORTED_FUNCTIONS \cup parser.custom_functions

RECURSIVE UnsupportedCalls(_)
\* The calls in the AST whose callee is a plain identifier outside the
\* combinator set.
UnsupportedCalls(node) ==
    (IF /\ node.kind = "CallExpression" /\ node.kids[1].kind = "Identifier"
        /\ node.kids[1].info.name \notin SupportedFunctions
     THEN {node} ELSE {})
    \cup UNION {UnsupportedCalls(node.kids[i]) : i \in 1..Len(node.kids)}

Diagnostics == OxcParse(doc, ParsedText, detect_source_type(file_path)).errors

\* C13: when the parser reports a diagnostic, process_content returns the
\* ParseError of parse_file: nothing is extracted, no text is returned and
\* the file is not written, whatever the processing mode.
C13_ParseErrorStops ==
    (file_pc = "processed" /\ Diagnostics > 0) =>
        /\ ~ret.ok /\ ret.err = "ParseError"
        /\ matches = <<>> /\ extracted = <<>>
        /\ ret.value = "" /\ ~changes_made
        /\ disk = content /\ writes = 0

\* A file with a syntax error was processed in write mode.
C13_Witness ==
    /\ file_pc = "processed"
    /\ Diagnostics > 0
    /\ options.write /\ ~options.dry_run

\* C14: a sorter never holds a category name outside the built-in set:
\* building one from a custom order that names such a category fails with a
\* configuration error, through TailwindSorter::new_with_custom_order and
\* through FileProcessor::new_with_config.
C14_NoUnknownCategoryHeld ==
    \A i \in 1..Len(sorter.category_order) :
        sorter.category_order[i] \in Range(get_available_categories)

(***************************************************************************)
(* Properties of the batch pipeline.                                       *)
(***************************************************************************)
Returned == batch_pc = "returned"

WriteMode == options.write /\ ~options.dry_run /\ ~options.check_formatted

\* The files whose text on disk is not the text process_files found.
Rewritten == {i \in DOMAIN files : fs[files[i]].text /= fs_discovered[files[i]].text}

\* C15: in write mode, the result of every file the run rewrote on disk says
\* changes_made, files_with_changes counts these files, and the result of a
\* file that was left as it was says no change.
C15_RewrittenReportedChanged ==
    (Returned /\ WriteMode) =>
        /\ \A i \in DOMAIN files : results.results[i].changes_made <=> i \in Rewritten
        /\ results.files_with_changes = Cardinality(Rewritten)

InParallel == processing_mode.kind \in {"Parallel", "ParallelWithThreads"}

\* What process_files would return for the same files on a pipeline in
\* Sequential mode.
SequentialResults ==
    process_files_sequential(new_with_config(config), files, fs_discovered, options).results

\* The results of a batch for one path, as (success, changes_made,
\* processed_content).
Outcomes(batch, path) ==
    {<<batch.results[i].success, batch.results[i].changes_made,
       batch.results[i].processed_content>> :
        i \in {j \in DOMAIN batch.results : batch.results[j].file_path = path}}

Counters(batch) ==
    <<batch.total_files, batch.processed_files, batch.files_with_changes, batch.failed_files>>

\* C16: whatever the interleaving of the threads, a parallel run processes
\* each file exactly once and returns for each file the success,
\* changes_made and processed_content a sequential run returns, and the same
\* four counters.
C16_ParallelEqualsSequential ==
    (Returned /\ InParallel) =>
        \E reference \in {SequentialResults} :
            /\ \A i \in DOMAIN files :
                   /\ tasks[i].runs = 1
                   /\ Cardinality({j \in DOMAIN results.results :
                                      results.results[j].file_path = files[i]}) = 1
                   /\ Outcomes(results, files[i]) = Outcomes(reference, files[i])
            /\ Len(results.results) = Len(files)
            /\ Counters(results) = Counters(reference)

\* A parallel run of two files has returned; the second file was done
\* before the first, one file failed and one was found to need a change.
C16_Witness ==
    /\ Returned
    /\ InParallel
    /\ Len(files) = 2
    /\ tasks[1].order = 2
    /\ results.failed_files = 1
    /\ results.files_with_changes = 1

\* The files of the batch that cannot be read, or whose text the parser
\* reports a diagnostic for.
Failing ==
    {i \in DOMAIN files :
        LET entry == fs_discovered[files[i]]
        IN  \/ entry.io /= "ok"
            \/ OxcParse(entry.doc, wrap_jsx_if_needed(entry.text).wrapped,
                        detect_source_type(files[i])).errors > 0}

ResultsOf(i) == {j \in DOMAIN results.results : results.results[j].file_path = files[i]}

\* C17: in every mode the batch returns one result per file; the result of
\* a file that cannot be read or parsed is one error result, every other
\* file is processed with success, and failed_files is the number of
\* failing files.
C17_FailuresAreIsolated ==
    Returned =>
        /\ results.total_files = Len(files)
        /\ results.failed_files = Cardinality(Failing)
        /\ results.processed_files = Len(files) - Cardinality(Failing)
        /\ \A i \in DOMAIN files :
               /\ Cardinality(ResultsOf(i)) = 1
               /\ tasks[i].runs = 1
               /\ \A j \in ResultsOf(i) :
                      /\ results.results[j].success <=> i \notin Failing
                      /\ results.results[j].error /= None <=> i \in Failing

\* A batch of two files has returned: the first does not parse, the second
\* was processed.
C17_Witness ==
    /\ Returned
    /\ Len(files) = 2
    /\ Failing = {1}
    /\ fs_discovered[files[1]].io = "ok"
    /\ results.results[2].success
    /\ results.results[2].file_path = files[2]

(***************************************************************************)
(* Properties of the rewriting of arrays.                                  *)
(***************************************************************************)
RECURSIVE ArrayNodes(_)
\* The array expressions of the AST.
ArrayNodes(node) ==
    (IF node.kind = "ArrayExpression" THEN {node} ELSE {})
    \cup UNION {ArrayNodes(node.kids[i]) : i \in 1..Len(node.kids)}

\* The quote characters of the elements of the array that hold the token.
ElementQuotes(array, token) ==
    {At(ParsedText, array.kids[k].start + 1) :
        k \in {j \in 1..Len(array.kids) :
                  token \in Range(Tokens(Slice(ParsedText, array.kids[j].start + 1,
                                               array.kids[j].end - 1)))}}

\* [e1, e2, ...] with token k in the quote character quotes[k].
QuotedArray(tokens, quotes) ==
    "[" \o Join([k \in 1..Len(tokens) |-> quotes[k] \o tokens[k] \o quotes[k]], ", ") \o "]"

\* The texts the claim allows in the place of the array: one element per
\* token of the sorted list, each in a quote character the token had.
AllowedArrays(array, sorted_classes) ==
    LET tokens == Tokens(sorted_classes)
    IN  {QuotedArray(tokens, quotes) :
            quotes \in {q \in [1..Len(tokens) -> {"'", DQ, BT}] :
                           \A k \in 1..Len(tokens) : q[k] \in ElementQuotes(array, tokens[k])}}

\* An Array match whose class list is not in canonical order.
RewrittenArrays ==
    {i \in 1..Len(matches) : matches[i].pattern_type.tag = "Array" /\ ~Canonical(matches[i])}

\* The matches in the order process_content applies them.
SortedMatches == sort_by_start_desc(matches)

\* The working buffer of process_content after k matches were applied.
BufferAt(k) ==
    rewrite_all(sorter, [result |-> content, changes_made |-> FALSE, cache |-> <<>>],
                SubSeq(SortedMatches, 1, k)).result

\* C18: the step that rewrites an Array match replaces the span of the array
\* in the buffer with [e1, e2, ...], one element per token of the sorted,
\* deduplicated class list, each in the quote character its token had in
\* the original array.
C18_ArrayRebuiltWithOwnQuotes ==
    Processed =>
        \A i \in RewrittenArrays :
            \A array \in {a \in ArrayNodes(ParsedProgram) :
                             a.start = extracted[i].start /\ a.end = extracted[i].end} :
                \A k \in {j \in 1..Len(matches) : SortedMatches[j] = matches[i]} :
                    \E before \in {BufferAt(k - 1)} :
                        BufferAt(k) \in
                            {Slice(before, 0, matches[i].start) \o text
                                 \o Slice(before, matches[i].end, Len(before)) :
                             text \in AllowedArrays(array, sort_classes(sorter, <<>>,
                                                                        matches[i].original))}

\* The text the code writes in the place of the array: one element per
\* token of the sorted list, all in the quote character of the first element.
FirstQuoteArray(array, sorted_classes) ==
    LET tokens == Tokens(sorted_classes)
    IN  QuotedArray(tokens, [k \in 1..Len(tokens) |-> At(ParsedText, array.kids[1].start + 1)])

\* C18, amended: the step that rewrites an Array match replaces the span of
\* the array in the buffer with [e1, e2, ...], one element per token of the
\* sorted, deduplicated class list, every element in the quote character of
\* the first element of the original array.
C18_ArrayRebuiltWithFirstQuote ==
    Processed =>
        \A i \in RewrittenArrays :
            \A array \in {a \in ArrayNodes(ParsedProgram) :
                             a.start = extracted[i].start /\ a.end = extracted[i].end} :
                \A k \in {j \in 1..Len(matches) : SortedMatches[j] = matches[i]} :
                    \E before \in {BufferAt(k - 1)} :
                        BufferAt(k) =
                            Slice(before, 0, matches[i].start)
                                \o FirstQuoteArray(array, sort_classes(sorter, <<>>,
                                                                       matches[i].original))
                                \o Slice(before, matches[i].end, Len(before))

\* An array whose elements are quoted differently was rewritten, and the
\* text returned is the buffer after the last step.
C18_Witness ==
    /\ Processed
    /\ Preview
    /\ ret.value = BufferAt(Len(matches))
    /\ \E i \in RewrittenArrays :
           \E array \in ArrayNodes(ParsedProgram) :
               /\ array.start = extracted[i].start
               /\ array.end = extracted[i].end
               /\ Len(array.kids) = 2
               /\ At(ParsedText, array.kids[1].start + 1) /= At(ParsedText, array.kids[2].start + 1)

(***************************************************************************)
(* Properties of the content heuristic.                                    *)
(***************************************************************************)
\* How many whitespace-separated tokens of the string match a pattern.
MatchingTokens(s) ==
    Cardinality({i \in 1..Len(Tokens(s)) : matches_tailwind_pattern(Tokens(s)[i])})

\* The threshold on the tokens of the string.
MeetsThreshold(s) ==
    LET n == Len(Tokens(s))
        k == MatchingTokens(s)
    IN  \/ n = 1 /\ k = 1
        \/ n \in 2..4 /\ k >= 2
        \/ n >= 5 /\ 2 * k >= n

\* C19: the heuristic accepts a string exactly when no exclusion pattern
\* matches it and its whitespace-separated tokens meet the threshold: one
\* token that matches, 2 to 4 tokens with at least 2 matching, 5 or more
\* tokens with at least half matching.
C19_AcceptsIffThreshold ==
    heuristic_pc = "decided" =>
        (looks_like <=> (~is_excluded_string(Trim(literal_content))
                            /\ MeetsThreshold(literal_content)))

(***************************************************************************)
(* Properties of the order of the edits.                                   *)
(***************************************************************************)
\* The step from buffer before to buffer after changed nothing outside the
\* bytes [start, end) of before.
EditWithin(before, after, start, end) ==
    /\ Len(after) >= start + (Len(before) - end)
    /\ Slice(after, 0, start) = Slice(before, 0, start)
    /\ Slice(after, Len(after) - (Len(before) - end), Len(after)) = Slice(before, end, Len(before))

\* C20: the matches are applied in strictly descending order of start; when
\* a match is applied the buffer up to the end of the match is still the
\* original text, and the step changes the bytes of the span of the match
\* and nothing else, whatever the pattern type of the match.
C20_EditsDescendAndLand ==
    Processed =>
        \A k \in 1..Len(matches) :
            \E step \in {[m |-> SortedMatches[k], before |-> BufferAt(k - 1),
                          after |-> BufferAt(k)]} :
                /\ k > 1 => SortedMatches[k - 1].start > step.m.start
                /\ step.m.end <= Len(step.before)
                /\ Slice(step.before, 0, step.m.end) = Slice(content, 0, step.m.end)
                /\ EditWithin(step.before, step.after, step.m.start, step.m.end)



(***************************************************************************)
(* Processing twice.                                                       *)
(***************************************************************************)
Reprocessed == file_pc = "reprocessed" /\ ret.ok

\* C21: in preview mode a second call of process_content on the text the
\* first call returned returns that text unchanged.
C21_FileIdempotent == Reprocessed => ret.value = content


(***************************************************************************)
(* Properties of the visit of arrays.                                      *)
(***************************************************************************)
RECURSIVE WalkedArrays(_)
\* The array expressions the default walk reaches from the statements: those
\* of a declaration, and those that are elements of such an array.
WalkedArrays(node) ==
    (IF node.kind = "ArrayExpression" THEN {node} ELSE {})
    \cup (IF node.kind \in {"Program", "VariableDeclaration", "ArrayExpression"}
          THEN UNION {WalkedArrays(node.kids[i]) : i \in 1..Len(node.kids)}
          ELSE {})

\* The elements of the array whose content passes the heuristic.
PassingElements(array) ==
    {k \in 1..Len(array.kids) :
        looks_like_tailwind_classes(Slice(ParsedText, array.kids[k].start + 1,
                                          array.kids[k].end - 1))}

\* An array of two or more string literals of which fewer than half pass.
TooFewHits(array) ==
    /\ Len(array.kids) > 1
    /\ \A k \in 1..Len(array.kids) : array.kids[k].kind = "StringLiteral"
    /\ 2 * Cardinality(PassingElements(array)) < Len(array.kids)

\* C22: an array of string literals with more than one element of which
\* fewer than half pass the heuristic yields no Array match, and each of its
\* elements that passes the heuristic yields a match of its own.
C22_ElementsStillVisited ==
    Processed =>
        \A array \in WalkedArrays(ParsedProgram) :
            TooFewHits(array) =>
                /\ ~\E i \in 1..Len(extracted) :
                        /\ extracted[i].pattern_type.tag = "Array"
                        /\ extracted[i].start = array.start
                /\ \A k \in PassingElements(array) :
                        \E i \in 1..Len(extracted) :
                            /\ extracted[i].start = array.kids[k].start
                            /\ extracted[i].end = array.kids[k].end


(***************************************************************************)
(* Properties of the processing modes.                                     *)
(***************************************************************************)
\* C23: a call with dry_run or check_formatted set writes nothing: the file
\* is as it was before the call, whatever write is and whether or not a
\* class list needed sorting.
C23_DryRunNeverWrites ==
    (file_pc = "processed" /\ (options.dry_run \/ options.check_formatted)) =>
        (writes = 0 /\ disk = content)


(***************************************************************************)
(* Properties of the parallel modes.                                       *)
(***************************************************************************)
\* C24: in the parallel modes no two tasks that run at the same time are on
\* the same content processor, and none is on the pipeline's own one, whose
\* category cache no task touches.
C24_TasksOwnTheirProcessor ==
    InParallel =>
        /\ \A i, j \in InFlight : i # j => tasks[i].on # tasks[j].on
        /\ \A i \in InFlight : tasks[i].on \notin {None, Some(content_processor.id)}
        /\ category_cache = <<>>

\* Two tasks are running at the same time.
C24_Witness == InParallel /\ Cardinality(InFlight) = 2


(***************************************************************************)
(* Properties of the counters of a batch.                                  *)
(***************************************************************************)
\* The result the last add_result call was given.
LastAdded(self) == self.results[Len(self.results)]

\* C25: after any sequence of add_result calls total_files is
\* processed_files + failed_files and the number of results held,
\* files_with_changes is at most processed_files, and a call with a failed
\* result leaves files_with_changes as it was.
C25_CountersConsistent ==
    /\ [](/\ results.total_files = results.processed_files + results.failed_files
          /\ results.total_files = Len(results.results)
          /\ results.files_with_changes <= results.processed_files)
    /\ [][(results' # results /\ ~LastAdded(results').success) =>
             results'.files_with_changes = results.files_with_changes]_vars

\* Failed results, one of them flagged changes_made, and a changed file.
C25_Witness ==
    /\ batch_pc = "adding"
    /\ results.files_with_changes > 0
    /\ \E i \in 1..Len(results.results) :
          ~results.results[i].success /\ results.results[i].changes_made


(***************************************************************************)
(* Properties of the AtomicWriter.                                         *)
(***************************************************************************)
\* C26: the target is as it was before until a commit succeeds; when the
\* writer was dropped without commit or commit returned an error, the
\* temporary file does not exist and the target is as it was before; when
\* commit succeeded the target holds exactly what the writer was given and
\* the temporary file does not exist.
C26_NoTempLeftNoPartialTarget ==
    /\ atomic_pc \in {"open", "write_failed"} => dir.target = writer.before
    /\ (atomic_pc = "dropped" \/ (atomic_pc = "committed" /\ atomic_ret = "err")) =>
          (dir.temp = None /\ dir.target = writer.before)
    /\ (atomic_pc = "committed" /\ atomic_ret = "ok") =>
          (dir.temp = None /\ dir.target = Some(writer.given))


(***************************************************************************)
(* Properties of the category lookup.                                      *)
(***************************************************************************)
\* C27: the category of a class with an important marker, a negative marker
\* or both in either order, with variant modifiers in front, or with an
\* arbitrary value behind, is the category of the class itself.
C27_MarkersKeepCategory ==
    category_pc = "done" => lookups[2].category = lookups[1].category

\* C30: what find_category_optimized returns for a base class is the
\* category of the longest prefix of the table the base class starts with,
\* "unknown" when no prefix matches.
C30_FastPathIsLongestPrefix ==
    \A i \in 1..Len(lookups) :
        lookups[i].category = longest_prefix_category(lookups[i].base_class)

\* A lookup the fast path answers and one the table answers.
C30_Witness ==
    /\ category_pc = "done"
    /\ lookups[1].base_class = "px-"
    /\ lookups[1].category = "spacing"
    /\ lookups[2].base_class = "red]"
    /\ lookups[2].category = "unknown"


(***************************************************************************)
(* Properties of the rewriting of string concatenations.                   *)
(***************************************************************************)
RECURSIVE BinaryNodes(_)
\* The binary expressions of the AST.
BinaryNodes(node) ==
    (IF node.kind = "BinaryExpression" THEN {node} ELSE {})
    \cup UNION {BinaryNodes(node.kids[i]) : i \in 1..Len(node.kids)}

\* The text of a string literal of the AST, without its quotes.
LiteralText(lit) == Slice(ParsedText, lit.start + 1, lit.end - 1)

\* A BinaryExpression match whose class list is not in canonical order.
RewrittenBinaries ==
    {i \in 1..Len(matches) :
        matches[i].pattern_type.tag = "BinaryExpression" /\ ~Canonical(matches[i])}

\* The tokens are those of the two operands, each once, in the order of the
\* sort key.
SortedDeduplicated(tokens, left, right) ==
    /\ Range(tokens) = Range(Tokens(left)) \cup Range(Tokens(right))
    /\ Len(tokens) = Cardinality(Range(tokens))
    /\ \A j \in 1..(Len(tokens) - 1) : KeyLeq(tokens[j], tokens[j + 1])

\* <q>L<q> + <q>R<q> with L the first k tokens and R the others.
SplitAt(tokens, k, q) ==
    q \o Join(SubSeq(tokens, 1, k), " ") \o q \o " + "
      \o q \o Join(SubSeq(tokens, k + 1, Len(tokens)), " ") \o q

\* C28: the step that rewrites a BinaryExpression match replaces the span of
\* the expression in the buffer with <q>L<q> + <q>R<q>, where L followed by R
\* is the sorted, deduplicated token list of the two operands and L has as
\* many tokens as the original left operand had words, or half the number of
\* sorted tokens (rounded down) when the left operand had more words than
\* there are sorted tokens.
C28_BinarySplitAtLeftWordCount ==
    Processed =>
        \A i \in RewrittenBinaries :
            \A expr \in {b \in BinaryNodes(ParsedProgram) :
                            b.start = extracted[i].start /\ b.end = extracted[i].end} :
                \A k \in {j \in 1..Len(matches) : SortedMatches[j] = matches[i]} :
                    \E before \in {BufferAt(k - 1)} :
                        LET left == LiteralText(expr.kids[1])
                            right == LiteralText(expr.kids[2])
                            words == Len(Tokens(left))
                            sorted == sort_classes(sorter, <<>>, matches[i].original)
                            n == Len(Tokens(sorted))
                            split == IF words <= n THEN words ELSE n \div 2
                        IN  /\ SortedDeduplicated(Tokens(sorted), left, right)
                            /\ BufferAt(k) =
                                   Slice(before, 0, matches[i].start)
                                       \o SplitAt(Tokens(sorted), split,
                                                  At(ParsedText, expr.start + 1))
                                       \o Slice(before, matches[i].end, Len(before))

\* A concatenation was rewritten whose left operand had more words than
\* there are sorted tokens, and the text returned is the buffer after the
\* last step.
C28_Witness ==
    /\ Processed
    /\ Preview
    /\ ret.value = BufferAt(Len(matches))
    /\ \E i \in RewrittenBinaries :
           \E expr \in BinaryNodes(ParsedProgram) :
               /\ expr.start = extracted[i].start
               /\ expr.end = extracted[i].end
               /\ Len(Tokens(LiteralText(expr.kids[1]))) >
                      Len(Tokens(sort_classes(sorter, <<>>, matches[i].original)))
               /\ ret.value # content


(***************************************************************************)
(* Properties of the sorter: the order and multiplicity of the input.      *)
(***************************************************************************)
\* The class lists with the same distinct tokens as the one given.
SameTokens(s) == {t \in ClassStrings : Range(Tokens(t)) = Range(Tokens(s))}

\* C29: the result of sort_classes depends only on the set of distinct
\* tokens of its argument: every class list with the same distinct tokens,
\* in whatever order and however often, gives the same result.
C29_DependsOnTokenSetOnly ==
    sort_pc = "sorted" =>
        \A other \in SameTokens(class_string) :
            sort_classes(sorter, <<>>, other) = sorted_once

====
